---- MODULE Spec2Model ----
(***************************************************************************)
(* Model of the synchronization core of the Kontent.ai -> Microsoft 365 /  *)
(* Asana integration: SyncService (src/src/services/sync.service.ts), the  *)
(* enablement of its two adapters and the dispatch of syncContext by the   *)
(* context observer (src/src/index.ts).                                    *)
(*                                                                         *)
(* JavaScript runs one task of the event loop to completion, so an action  *)
(* of the model is one such task: the code from one network response (or   *)
(* one notification) up to the next network request.  An `await` of a      *)
(* promise that needs no network resumes in the same task.                 *)
(***************************************************************************)
EXTENDS Integers, Sequences, FiniteSets, TLC

VARIABLES
    config,      \* SyncService.config, the resolved AppConfig
    client,      \* Microsoft365Service.client: "null" or "ready"
    tokenFetch,  \* the token request of initializeClient: "none", "pending", "done", "failed"
    syncMap,     \* SyncService.syncMap: sync key -> reference of the record object (0: no entry)
    heap,        \* the record objects, by reference: {ms365EventId?, asanaTaskId?}
    invs,        \* the syncContext invocations, in the order they were started
    snaps,       \* the context snapshots the observer callback was called with, in order
    kontent,     \* appConfig.kontent and the enrichment toggles of appConfig.syncSettings
    currentAppConfig,  \* initializeApp's currentAppConfig: the adapter sections of the held configuration
    currentResponse,   \* currentResponse.context.appConfig: the appConfig of the latest context
    keyIn,       \* inputs of the key-construction check: two (contentItemId, languageId) pairs
    keyOut,      \* the sync keys built from keyIn (<<>> before they are built)
    winIn,       \* context.dueDate and Date.now() of one syncToMicrosoft365
    winOut,      \* startTime and endTime computed from winIn (<<>> before)
    adIn,        \* one adapter call: the operation, the adapter's config, what the network does
    adOut        \* what the adapter call returned (<<>> before)

\* the variables of the observer callback, and those of the functions examined on their own
configVars == <<currentAppConfig, currentResponse>>
observerVars == <<snaps, kontent, currentAppConfig, currentResponse>>
pureVars == <<keyIn, keyOut, winIn, winOut, adIn, adOut>>

vars == <<config, client, tokenFetch, syncMap, heap, invs, snaps, kontent,
          currentAppConfig, currentResponse,
          keyIn, keyOut, winIn, winOut, adIn, adOut>>

(***************************************************************************)
(* Bounds                                                                  *)
(***************************************************************************)
MaxInvocations == 3     \* syncContext invocations started in one behaviour
MaxIdLen == 2           \* length of the ids fed to the key construction

MaxQuarterHours == 60  \* due dates and clock readings up to this many quarters of an hour

MaxSnapshots == 2      \* context snapshots delivered to the observer callback

MaxLiveInvocations == 2  \* syncContext invocations started in a behaviour checked for termination

(***************************************************************************)
(* Values                                                                  *)
(***************************************************************************)
\* undefined / null: the absent id
None == <<>>

\* Strings are sequences of characters, so that concatenation is computed.
Chars == {"a", "-"}

RECURSIVE StringsOfLen(_)
StringsOfLen(n) ==
    IF n = 0 THEN {<<>>}
    ELSE {<<c>> \o s : c \in Chars, s \in StringsOfLen(n - 1)}

IdStrings == UNION {StringsOfLen(n) : n \in 1..MaxIdLen}

\* const syncKey = `${context.contentItemId}-${context.languageId}`
SyncKey(contentItemId, languageId) == contentItemId \o <<"-">> \o languageId

\* The entities (contentItemId, languageId) that notifications are about.
Entities == {<<<<"a">>, <<"a">>>>, <<<<"a">>, <<"a", "a">>>>}

SyncKeys == {SyncKey(e[1], e[2]) : e \in Entities}

\* context.contributors: absent, or a list of e-mail addresses
Contributors == {
    [defined |-> TRUE, emails |-> <<>>],
    [defined |-> TRUE, emails |-> <<"u1">>],
    [defined |-> TRUE, emails |-> <<"u1", "u2">>]}

\* The resolved configurations a SyncService is constructed with.
Configs == [msEnabled : BOOLEAN, msCredentials : BOOLEAN,
            asanaEnabled : BOOLEAN, asanaAccessToken : BOOLEAN,
            createCalendarEvents : BOOLEAN, createTasks : BOOLEAN]

\* Record objects: references 1..2*MaxInvocations, 0 is "no object".
Refs == 1..(2 * MaxInvocations)
\* the object literal {} of `this.syncMap.get(syncKey) || {}` in invocation t
CreateRef(t) == 2 * t - 1
\* the object literal updatedSync of invocation t
FinalRef(t) == 2 * t

\* Remote ids are unique: the id returned by the i-th calendar call of invocation t,
\* and by the task create of invocation t.
EventId(t, i) == <<"event", t, i>>
TaskId(t) == <<"task", t>>

EmptyRecord == [ms365EventId |-> None, asanaTaskId |-> None]

\* No Management API token: extractSyncContext fetches nothing.
NoEnrichment == [hasManagementApi |-> FALSE, syncWorkflowSteps |-> TRUE, syncContributors |-> TRUE]

\* The adapter sections of a resolved AppConfig: whether clientId, tenantId with
\* clientSecret, and accessToken are non-empty, and the two enabled flags.
AppConfigs == [clientId : BOOLEAN, tenantAndSecret : BOOLEAN, msEnabled : BOOLEAN,
               accessToken : BOOLEAN, asanaEnabled : BOOLEAN]

\* the adapter sections of the configuration a service with the config cfg was built from
AppConfigOf(cfg) ==
    [clientId |-> cfg.msCredentials, tenantAndSecret |-> cfg.msCredentials,
     msEnabled |-> cfg.msEnabled,
     accessToken |-> cfg.asanaAccessToken, asanaEnabled |-> cfg.asanaEnabled]

\* context.appConfig holding the JSON object of a resolved configuration
ContextOf(ac) ==
    [kind |-> "object", clientId |-> ac.clientId, tenantAndSecret |-> ac.tenantAndSecret,
     msEnabled |-> <<ac.msEnabled>>, accessToken |-> ac.accessToken,
     asanaEnabled |-> <<ac.asanaEnabled>>]

(***************************************************************************)
(* Adapters                                                                *)
(***************************************************************************)
\* Microsoft365Service.isEnabled
Ms365IsEnabled(cfg, cl) == cfg.msEnabled /\ cl = "ready"

\* AsanaService.isEnabled
AsanaIsEnabled(cfg) == cfg.asanaEnabled /\ cfg.asanaAccessToken

\* Microsoft365Service constructor: the token request starts iff enabled with credentials
ConstructorStartsClient(cfg) == cfg.msEnabled /\ cfg.msCredentials

(***************************************************************************)
(* SyncService.  The operators below take and return the part of the state  *)
(* an invocation works on: st = [syncMap, heap, inv], inv the invocation's  *)
(* own locals and the calls it has issued so far.                           *)
(***************************************************************************)
\* existingSync?.ms365EventId / existingSync?.asanaTaskId, read through the reference
FieldOf(h, ref, field) == IF ref = 0 THEN None ELSE h[ref][field]

\* Mutant of StoreId: the id is stored in a fresh record that replaces the one the
\* map holds (this.syncMap.set(syncKey, {[field]: id})), dropping the other adapter's id.
StoreId_FreshRecord(st, t, field, id) ==
    LET k == st.inv.key
    IN [st EXCEPT !.heap = [st.heap EXCEPT ![CreateRef(t)] = [EmptyRecord EXCEPT ![field] = id]],
                  !.syncMap = [st.syncMap EXCEPT ![k] = CreateRef(t)]]

\* const existing = this.syncMap.get(syncKey) || {}; existing[field] = id;
\* this.syncMap.set(syncKey, existing)
StoreId(st, t, field, id) ==
    LET k == st.inv.key
        ref == IF st.syncMap[k] = 0 THEN CreateRef(t) ELSE st.syncMap[k]
        old == IF st.syncMap[k] = 0 THEN EmptyRecord ELSE st.heap[ref]
    IN [st EXCEPT !.heap = [st.heap EXCEPT ![ref] = [old EXCEPT ![field] = id]],
                  !.syncMap = [st.syncMap EXCEPT ![k] = ref]]

\* Mutant of UpdateSyncMap: the map is rebuilt with the entry of this key only.
UpdateSyncMap_OnlyThisKey(st, t) ==
    LET k == st.inv.key
        updatedSync == [ms365EventId |-> FieldOf(st.heap, st.inv.existingSync, "ms365EventId"),
                        asanaTaskId |-> FieldOf(st.heap, st.inv.existingSync, "asanaTaskId")]
    IN [st EXCEPT !.heap = [st.heap EXCEPT ![FinalRef(t)] = updatedSync],
                  !.syncMap = [k2 \in SyncKeys |-> IF k2 = k THEN FinalRef(t) ELSE 0],
                  !.inv = [st.inv EXCEPT !.pc = "done"]]

\* Update sync map: updatedSync = {ms365EventId: existingSync?.ms365EventId,
\* asanaTaskId: existingSync?.asanaTaskId}; this.syncMap.set(syncKey, updatedSync)
UpdateSyncMap(st, t) ==
    LET k == st.inv.key
        updatedSync == [ms365EventId |-> FieldOf(st.heap, st.inv.existingSync, "ms365EventId"),
                        asanaTaskId |-> FieldOf(st.heap, st.inv.existingSync, "asanaTaskId")]
    IN [st EXCEPT !.heap = [st.heap EXCEPT ![FinalRef(t)] = updatedSync],
                  !.syncMap = [st.syncMap EXCEPT ![k] = FinalRef(t)],
                  !.inv = [st.inv EXCEPT !.pc = "done"]]

\* context.contributors?.[0]: the first element, as a list of at most one element
FirstOf(emails) == IF Len(emails) = 0 THEN <<>> ELSE <<emails[1]>>

\* Mutant of IssueAsanaCall: the assignee is the last contributor, not the first.
IssueAsanaCall_LastContributor(st, existingTaskId) ==
    LET emails == st.inv.contributors.emails
        assigneeEmail == IF Len(emails) = 0 THEN <<>> ELSE <<emails[Len(emails)]>>
        call == [op |-> IF existingTaskId # None THEN "update" ELSE "create",
                 id |-> existingTaskId, ok |-> FALSE, threw |-> FALSE, user |-> assigneeEmail]
    IN [st EXCEPT !.inv = [st.inv EXCEPT !.pc = "asanaCall",
                                         !.existingTaskId = existingTaskId,
                                         !.asanaCalls = Append(@, call)]]

\* the body of the try block of syncToAsana: updateTask with the id passed in, or createTask
IssueAsanaCall(st, existingTaskId) ==
    LET assigneeEmail == FirstOf(st.inv.contributors.emails)
        call == IF existingTaskId # None
                THEN [op |-> "update", id |-> existingTaskId, ok |-> FALSE,
                      threw |-> FALSE, user |-> assigneeEmail]
                ELSE [op |-> "create", id |-> None, ok |-> FALSE,
                      threw |-> FALSE, user |-> assigneeEmail]
    IN [st EXCEPT !.inv = [st.inv EXCEPT !.pc = "asanaCall",
                                         !.existingTaskId = existingTaskId,
                                         !.asanaCalls = Append(@, call)]]

\* syncToAsana(context, existingTaskId) up to its request
SyncToAsana(st, t, existingTaskId) ==
    IF ~config.asanaEnabled
    THEN UpdateSyncMap(st, t)
    ELSE IssueAsanaCall(st, existingTaskId)

\* Mutant of SyncAsanaStep: the gate tests asanaService.isEnabled() only, not the toggle.
SyncAsanaStep_NoToggle(st, t) ==
    IF AsanaIsEnabled(config)
    THEN SyncToAsana(st, t, FieldOf(st.heap, st.inv.existingSync, "asanaTaskId"))
    ELSE UpdateSyncMap(st, t)

\* Mutant of SyncAsanaStep: the gate tests the toggle only, not asanaService.isEnabled().
SyncAsanaStep_NoIsEnabled(st, t) ==
    IF config.createTasks
    THEN SyncToAsana(st, t, FieldOf(st.heap, st.inv.existingSync, "asanaTaskId"))
    ELSE UpdateSyncMap(st, t)

\* syncContext from "Sync to Asana" on: the gate, then syncToAsana or the map update
SyncAsanaStep(st, t) ==
    IF config.createTasks /\ AsanaIsEnabled(config)
    THEN SyncToAsana(st, t, FieldOf(st.heap, st.inv.existingSync, "asanaTaskId"))
    ELSE UpdateSyncMap(st, t)

\* Mutant of IssueMs365Call: the loop creates whatever id was passed in.
IssueMs365Call_AlwaysCreate(st, i) ==
    LET call == [op |-> "create", id |-> None, ok |-> FALSE,
                 threw |-> FALSE, user |-> <<st.inv.contributors.emails[i]>>]
    IN [st EXCEPT !.inv = [st.inv EXCEPT !.pc = "ms365Call", !.i = i,
                                         !.ms365Calls = Append(@, call)]]

\* one iteration of the contributor loop up to its request: updateCalendarEvent with
\* the id passed in, or createCalendarEvent
IssueMs365Call(st, i) ==
    LET userPrincipalName == <<st.inv.contributors.emails[i]>>
        call == IF st.inv.existingEventId # None
                THEN [op |-> "update", id |-> st.inv.existingEventId, ok |-> FALSE,
                      threw |-> FALSE, user |-> userPrincipalName]
                ELSE [op |-> "create", id |-> None, ok |-> FALSE,
                      threw |-> FALSE, user |-> userPrincipalName]
    IN [st EXCEPT !.inv = [st.inv EXCEPT !.pc = "ms365Call", !.i = i,
                                         !.ms365Calls = Append(@, call)]]

\* Mutant of SyncToMicrosoft365: the first calendar call is not awaited, the task
\* phase starts while it is outstanding.
SyncToMicrosoft365_NoAwait(st, t) ==
    IF ~config.msEnabled
    THEN SyncAsanaStep(st, t)
    ELSE IF Len(st.inv.contributors.emails) = 0
         THEN SyncAsanaStep(st, t)
         ELSE SyncAsanaStep(IssueMs365Call(st, 1), t)

\* syncToMicrosoft365(context, existingEventId) up to its first request
SyncToMicrosoft365(st, t) ==
    IF ~config.msEnabled
    THEN SyncAsanaStep(st, t)
    ELSE IF Len(st.inv.contributors.emails) = 0
         THEN SyncAsanaStep(st, t)
         ELSE IssueMs365Call(st, 1)

\* syncContext from "Sync to Microsoft 365" on
SyncMs365Step(st, t) ==
    IF config.createCalendarEvents /\ Ms365IsEnabled(config, client)
    THEN SyncToMicrosoft365(st, t)
    ELSE SyncAsanaStep(st, t)

\* syncContext(context), as called by the notification callback without being awaited
NewInvocation(e, c) ==
    LET k == SyncKey(e[1], e[2])
    IN [pc |-> "start", contentItemId |-> e[1], languageId |-> e[2], key |-> k,
        contributors |-> c,
        existingSync |-> syncMap[k],
        existingEventId |-> FieldOf(heap, syncMap[k], "ms365EventId"),
        existingTaskId |-> None,
        taskIdAtStart |-> FieldOf(heap, syncMap[k], "asanaTaskId"),
        msIsEnabled |-> Ms365IsEnabled(config, client),
        i |-> 0, ms365Calls |-> <<>>, asanaCalls |-> <<>>]

Commit(st, t) ==
    /\ syncMap' = st.syncMap
    /\ heap' = st.heap
    /\ invs' = IF t = Len(invs) + 1 THEN Append(invs, st.inv) ELSE [invs EXCEPT ![t] = st.inv]

\* syncService.syncContext(syncContext), run up to its first request
SyncContextCall(e, c) ==
    /\ Len(invs) < MaxInvocations
    /\ LET t == Len(invs) + 1
           st == [syncMap |-> syncMap, heap |-> heap, inv |-> NewInvocation(e, c)]
       IN Commit(SyncMs365Step(st, t), t)
    /\ UNCHANGED <<config, client, tokenFetch>>

\* a notification for an item-editor snapshot of entity e whose sync context has the
\* contributors c: the callback reaches syncService.syncContext(syncContext)
SyncContextStart(e, c) ==
    /\ SyncContextCall(e, c)
    /\ UNCHANGED <<observerVars, pureVars>>

\* Mutant of Ms365Return: a calendar call that failed is issued again, for the same
\* contributor, until it succeeds (the flag tells an attempt from the one before it).
Ms365Return_RetryUntilSuccess(st, t, ok) ==
    LET n == Len(st.inv.ms365Calls)
        call == st.inv.ms365Calls[n]
        i == st.inv.i
        eventId == IF call.op = "create" /\ ok THEN EventId(t, i) ELSE call.id
        logged == [st EXCEPT !.inv = [st.inv EXCEPT
                       !.ms365Calls = [@ EXCEPT ![n] = [call EXCEPT !.ok = ok, !.id = eventId]]]]
        stored == IF call.op = "create" /\ ok
                  THEN StoreId(logged, t, "ms365EventId", eventId)
                  ELSE logged
    IN IF ~ok
       THEN [st EXCEPT !.inv = [st.inv EXCEPT
                !.ms365Calls = [@ EXCEPT ![n] = [call EXCEPT !.threw = ~call.threw]]]]
       ELSE IF i < Len(st.inv.contributors.emails)
       THEN IssueMs365Call(stored, i + 1)
       ELSE SyncAsanaStep(stored, t)

\* createCalendarEvent / updateCalendarEvent returns: eventId or null, true or false.
\* Then the loop goes on with the next contributor, or syncToMicrosoft365 returns.
Ms365Return(st, t, ok) ==
    LET n == Len(st.inv.ms365Calls)
        call == st.inv.ms365Calls[n]
        i == st.inv.i
        eventId == IF call.op = "create" /\ ok THEN EventId(t, i) ELSE call.id
        logged == [st EXCEPT !.inv = [st.inv EXCEPT
                       !.ms365Calls = [@ EXCEPT ![n] = [call EXCEPT !.ok = ok, !.id = eventId]]]]
        stored == IF call.op = "create" /\ ok
                  THEN StoreId(logged, t, "ms365EventId", eventId)
                  ELSE logged
    IN IF i < Len(st.inv.contributors.emails)
       THEN IssueMs365Call(stored, i + 1)
       ELSE SyncAsanaStep(stored, t)

Ms365Response(t, ok) ==
    /\ t \in 1..Len(invs)
    /\ invs[t].pc = "ms365Call"
    /\ Commit(Ms365Return([syncMap |-> syncMap, heap |-> heap, inv |-> invs[t]], t, ok), t)
    /\ UNCHANGED <<config, client, tokenFetch, observerVars, pureVars>>

\* Mutant of AsanaReturn: a call that failed is issued once more.
AsanaReturn_RetryOnce(st, t, ok) ==
    LET n == Len(st.inv.asanaCalls)
        call == st.inv.asanaCalls[n]
        taskId == IF call.op = "create" /\ ok THEN TaskId(t) ELSE call.id
        logged == [st EXCEPT !.inv = [st.inv EXCEPT
                       !.asanaCalls = [@ EXCEPT ![n] = [call EXCEPT !.ok = ok, !.id = taskId]]]]
        stored == IF call.op = "create" /\ ok
                  THEN StoreId(logged, t, "asanaTaskId", taskId)
                  ELSE logged
    IN IF ~ok /\ n < 2
       THEN IssueAsanaCall(stored, st.inv.existingTaskId)
       ELSE UpdateSyncMap(stored, t)

\* createTask / updateTask returns: taskId or null, true or false.
\* Then syncToAsana returns and syncContext updates the sync map.
AsanaReturn(st, t, ok) ==
    LET n == Len(st.inv.asanaCalls)
        call == st.inv.asanaCalls[n]
        taskId == IF call.op = "create" /\ ok THEN TaskId(t) ELSE call.id
        logged == [st EXCEPT !.inv = [st.inv EXCEPT
                       !.asanaCalls = [@ EXCEPT ![n] = [call EXCEPT !.ok = ok, !.id = taskId]]]]
        stored == IF call.op = "create" /\ ok
                  THEN StoreId(logged, t, "asanaTaskId", taskId)
                  ELSE logged
    IN UpdateSyncMap(stored, t)

AsanaResponse(t, ok) ==
    /\ t \in 1..Len(invs)
    /\ invs[t].pc = "asanaCall"
    /\ Commit(AsanaReturn([syncMap |-> syncMap, heap |-> heap, inv |-> invs[t]], t, ok), t)
    /\ UNCHANGED <<config, client, tokenFetch, observerVars, pureVars>>

\* initializeClient: the token request succeeds and this.client is set
InitializeClientOk ==
    /\ tokenFetch = "pending"
    /\ tokenFetch' = "done"
    /\ client' = "ready"
    /\ UNCHANGED <<config, syncMap, heap, invs, observerVars, pureVars>>

\* initializeClient: the token request fails, the error is rethrown, client stays null
InitializeClientFail ==
    /\ tokenFetch = "pending"
    /\ tokenFetch' = "failed"
    /\ UNCHANGED <<config, client, syncMap, heap, invs, observerVars, pureVars>>

\* new SyncService(appConfig): the constructors of the service and of its adapters
Init ==
    /\ config \in Configs
    /\ client = "null"
    /\ tokenFetch = IF ConstructorStartsClient(config) THEN "pending" ELSE "none"
    /\ syncMap = [k \in SyncKeys |-> 0]
    /\ heap = [r \in Refs |-> EmptyRecord]
    /\ invs = <<>>
    /\ snaps = <<>>
    /\ kontent = NoEnrichment
    /\ currentAppConfig = AppConfigOf(config)
    /\ currentResponse = ContextOf(currentAppConfig)
    /\ keyIn = <<>>
    /\ keyOut = <<>>
    /\ winIn = <<>>
    /\ winOut = <<>>
    /\ adIn = <<>>
    /\ adOut = <<>>

Next ==
    \/ \E e \in Entities, c \in Contributors : SyncContextStart(e, c)
    \/ \E t \in 1..MaxInvocations, ok \in BOOLEAN : Ms365Response(t, ok)
    \/ \E t \in 1..MaxInvocations, ok \in BOOLEAN : AsanaResponse(t, ok)
    \/ InitializeClientOk
    \/ InitializeClientFail

Spec == Init /\ [][Next]_vars

(***************************************************************************)
(* The observer callback of initializeApp.  A snapshot carries the page    *)
(* and, on the item editor, the ids of the item.  It carries the same      *)
(* appConfig as the snapshots before it, so that the configuration the     *)
(* callback resolves equals currentAppConfig and the service is kept.  The *)
(* initial context is handled by the same steps (extractSyncContext, then  *)
(* syncContext) and is the first snapshot.                                 *)
(***************************************************************************)
Pages == {"itemEditor", "other"}

Kontents == [hasManagementApi : BOOLEAN, syncWorkflowSteps : BOOLEAN, syncContributors : BOOLEAN]

\* context.contributors when extractSyncContext did not fetch them
NoContributors == [defined |-> FALSE, emails |-> <<>>]

\* Mutant of Extractable: every page yields a sync context.
Extractable_AnyPage(page) == TRUE

\* extractSyncContext returns null unless context.currentPage === 'itemEditor'
Extractable(page) == page = "itemEditor"

\* Mutant of SyncServiceAvailable: the service is used only while no call has failed.
SyncServiceAvailable_UntilFailure ==
    \A t \in 1..Len(invs) :
        /\ \A n \in 1..Len(invs[t].ms365Calls) :
               invs[t].ms365Calls[n].ok \/ invs[t].pc = "ms365Call"
        /\ \A n \in 1..Len(invs[t].asanaCalls) :
               invs[t].asanaCalls[n].ok \/ invs[t].pc = "asanaCall"

\* `if (syncService)`: the service exists from initializeApp on
SyncServiceAvailable == TRUE

NewSnapshot(page, e) ==
    [page |-> page, contentItemId |-> e[1], languageId |-> e[2], pc |-> "start",
     workflowStep |-> "absent", workflowFailed |-> FALSE,
     contributors |-> NoContributors, contributorsFailed |-> FALSE, inv |-> 0]

PutSnapshot(n, snap) ==
    IF n = Len(snaps) + 1 THEN Append(snaps, snap) ELSE [snaps EXCEPT ![n] = snap]

\* extractSyncContext has returned syncContext: the callback calls syncService.syncContext
DispatchSync(n, snap) ==
    IF SyncServiceAvailable
    THEN /\ SyncContextCall(<<snap.contentItemId, snap.languageId>>, snap.contributors)
         /\ snaps' = PutSnapshot(n, [snap EXCEPT !.pc = "synced", !.inv = Len(invs) + 1])
    ELSE /\ snaps' = PutSnapshot(n, [snap EXCEPT !.pc = "noService"])
         /\ UNCHANGED <<config, client, tokenFetch, syncMap, heap, invs>>

\* extractSyncContext from "Fetch contributors" on
FetchContributorsStep(n, snap) ==
    IF kontent.syncContributors
    THEN /\ snaps' = PutSnapshot(n, [snap EXCEPT !.pc = "contributorsFetch"])
         /\ UNCHANGED <<config, client, tokenFetch, syncMap, heap, invs>>
    ELSE DispatchSync(n, snap)

\* the callback from extractSyncContext on, up to its first request or to its end
HandleContext(page, e) ==
    /\ Len(snaps) < MaxSnapshots
    /\ LET n == Len(snaps) + 1
           snap == NewSnapshot(page, e)
       IN IF ~Extractable(page)
          THEN /\ snaps' = PutSnapshot(n, [snap EXCEPT !.pc = "skipped"])
               /\ UNCHANGED <<config, client, tokenFetch, syncMap, heap, invs>>
          ELSE IF ~kontent.hasManagementApi
          THEN DispatchSync(n, snap)
          ELSE IF kontent.syncWorkflowSteps
          THEN /\ snaps' = PutSnapshot(n, [snap EXCEPT !.pc = "workflowFetch"])
               /\ UNCHANGED <<config, client, tokenFetch, syncMap, heap, invs>>
          ELSE FetchContributorsStep(n, snap)

\* the callback for a snapshot that carries the appConfig of the snapshot before it
ContextChange(page, e) ==
    /\ HandleContext(page, e)
    /\ UNCHANGED <<kontent, configVars, pureVars>>

\* getWorkflowStep resolves: a step, null when the variant has none, null when the
\* request failed (its catch returns null)
WorkflowStepResponse(n, outcome) ==
    /\ n \in 1..Len(snaps)
    /\ snaps[n].pc = "workflowFetch"
    /\ FetchContributorsStep(n, [snaps[n] EXCEPT
            !.workflowStep = IF outcome = "step" THEN "fetched" ELSE "absent",
            !.workflowFailed = (outcome = "failed")])
    /\ UNCHANGED <<kontent, configVars, pureVars>>

\* Mutant of ContributorsResponse: a failed fetch ends the handling of the snapshot.
ContributorsResponse_DropOnFailure(n, failed, c) ==
    /\ n \in 1..Len(snaps)
    /\ snaps[n].pc = "contributorsFetch"
    /\ IF failed
       THEN /\ snaps' = PutSnapshot(n, [snaps[n] EXCEPT !.pc = "dropped",
                                                        !.contributorsFailed = TRUE])
            /\ UNCHANGED <<config, client, tokenFetch, syncMap, heap, invs>>
       ELSE DispatchSync(n, [snaps[n] EXCEPT
                !.contributors = [defined |-> TRUE, emails |-> c.emails]])
    /\ UNCHANGED <<kontent, configVars, pureVars>>

\* getContributors resolves: the contributors of the variant, [] when the request
\* failed (its catch returns []); syncContext.contributors = contributors.map(c => c.email)
ContributorsResponse(n, failed, c) ==
    /\ n \in 1..Len(snaps)
    /\ snaps[n].pc = "contributorsFetch"
    /\ DispatchSync(n, [snaps[n] EXCEPT
            !.contributors = [defined |-> TRUE, emails |-> IF failed THEN <<>> ELSE c.emails],
            !.contributorsFailed = failed])
    /\ UNCHANGED <<kontent, configVars, pureVars>>

InitObserver ==
    /\ config \in Configs
    /\ client = "null"
    /\ tokenFetch = IF ConstructorStartsClient(config) THEN "pending" ELSE "none"
    /\ syncMap = [k \in SyncKeys |-> 0]
    /\ heap = [r \in Refs |-> EmptyRecord]
    /\ invs = <<>>
    /\ snaps = <<>>
    /\ kontent \in Kontents
    /\ currentAppConfig = AppConfigOf(config)
    /\ currentResponse = ContextOf(currentAppConfig)
    /\ keyIn = <<>>
    /\ keyOut = <<>>
    /\ winIn = <<>>
    /\ winOut = <<>>
    /\ adIn = <<>>
    /\ adOut = <<>>

NextObserver ==
    \/ \E page \in Pages, e \in Entities : ContextChange(page, e)
    \/ \E n \in 1..MaxSnapshots, outcome \in {"step", "none", "failed"} :
          WorkflowStepResponse(n, outcome)
    \/ \E n \in 1..MaxSnapshots, failed \in BOOLEAN, c \in Contributors :
          ContributorsResponse(n, failed, c)
    \/ \E t \in 1..MaxInvocations, ok \in BOOLEAN : Ms365Response(t, ok)
    \/ \E t \in 1..MaxInvocations, ok \in BOOLEAN : AsanaResponse(t, ok)
    \/ InitializeClientOk
    \/ InitializeClientFail

SpecObserver == InitObserver /\ [][NextObserver]_vars

(***************************************************************************)
(* SyncService with adapters that may throw: the calls of syncToMicrosoft365*)
(* and syncToAsana sit in try/catch, so an adapter method that rejects is  *)
(* logged and the invocation goes on.                                      *)
(***************************************************************************)
\* Mutant of Ms365Throw: the exception is not caught and ends the invocation.
Ms365Throw_Propagates(st, t) ==
    LET n == Len(st.inv.ms365Calls)
        call == st.inv.ms365Calls[n]
    IN [st EXCEPT !.inv = [st.inv EXCEPT !.pc = "done",
                      !.ms365Calls = [@ EXCEPT ![n] = [call EXCEPT !.threw = TRUE]]]]

\* the catch of the contributor loop: the error is logged, the loop goes on
Ms365Throw(st, t) ==
    LET n == Len(st.inv.ms365Calls)
        call == st.inv.ms365Calls[n]
        i == st.inv.i
        logged == [st EXCEPT !.inv = [st.inv EXCEPT
                       !.ms365Calls = [@ EXCEPT ![n] = [call EXCEPT !.threw = TRUE]]]]
    IN IF i < Len(st.inv.contributors.emails)
       THEN IssueMs365Call(logged, i + 1)
       ELSE SyncAsanaStep(logged, t)

Ms365Exception(t) ==
    /\ t \in 1..Len(invs)
    /\ invs[t].pc = "ms365Call"
    /\ Commit(Ms365Throw([syncMap |-> syncMap, heap |-> heap, inv |-> invs[t]], t), t)
    /\ UNCHANGED <<config, client, tokenFetch, observerVars, pureVars>>

\* the catch of syncToAsana: the error is logged, syncContext updates the sync map
AsanaThrow(st, t) ==
    LET n == Len(st.inv.asanaCalls)
        call == st.inv.asanaCalls[n]
        logged == [st EXCEPT !.inv = [st.inv EXCEPT
                       !.asanaCalls = [@ EXCEPT ![n] = [call EXCEPT !.threw = TRUE]]]]
    IN UpdateSyncMap(logged, t)

AsanaException(t) ==
    /\ t \in 1..Len(invs)
    /\ invs[t].pc = "asanaCall"
    /\ Commit(AsanaThrow([syncMap |-> syncMap, heap |-> heap, inv |-> invs[t]], t), t)
    /\ UNCHANGED <<config, client, tokenFetch, observerVars, pureVars>>

NextExceptions ==
    \/ \E page \in Pages, e \in Entities : ContextChange(page, e)
    \/ \E n \in 1..MaxSnapshots, outcome \in {"step", "none", "failed"} :
          WorkflowStepResponse(n, outcome)
    \/ \E n \in 1..MaxSnapshots, failed \in BOOLEAN, c \in Contributors :
          ContributorsResponse(n, failed, c)
    \/ \E t \in 1..MaxInvocations, ok \in BOOLEAN : Ms365Response(t, ok)
    \/ \E t \in 1..MaxInvocations, ok \in BOOLEAN : AsanaResponse(t, ok)
    \/ \E t \in 1..MaxInvocations : Ms365Exception(t)
    \/ \E t \in 1..MaxInvocations : AsanaException(t)
    \/ InitializeClientOk
    \/ InitializeClientFail

SpecExceptions == InitObserver /\ [][NextExceptions]_vars

(***************************************************************************)
(* Termination of syncContext.  Adapter calls that are outstanding         *)
(* eventually return or throw: the outcome of an outstanding call stays    *)
(* enabled until it is taken, and weak fairness on the outcomes of all     *)
(* invocations together is the least that "every call eventually returns   *)
(* or fails" gives.  Nothing is assumed about new notifications or about   *)
(* the token request.                                                      *)
(***************************************************************************)
SyncContextStartLive(e, c) ==
    /\ Len(invs) < MaxLiveInvocations
    /\ SyncContextStart(e, c)

\* the outstanding calendar call of invocation t returns or throws
Ms365Outcome(t) == (\E ok \in BOOLEAN : Ms365Response(t, ok)) \/ Ms365Exception(t)

\* the outstanding task call of invocation t returns or throws
AsanaOutcome(t) == (\E ok \in BOOLEAN : AsanaResponse(t, ok)) \/ AsanaException(t)

NextTermination ==
    \/ \E e \in Entities, c \in Contributors : SyncContextStartLive(e, c)
    \/ \E t \in 1..MaxLiveInvocations : Ms365Outcome(t)
    \/ \E t \in 1..MaxLiveInvocations : AsanaOutcome(t)
    \/ InitializeClientOk
    \/ InitializeClientFail

\* while a call is outstanding, some outstanding call eventually returns or throws
CallsReturn ==
    WF_vars(\E t \in 1..MaxLiveInvocations : Ms365Outcome(t) \/ AsanaOutcome(t))

SpecTermination == Init /\ [][NextTermination]_vars /\ CallsReturn

(***************************************************************************)
(* The observer callback with snapshots whose appConfig varies.  The       *)
(* callback keeps the held configuration when it has a Microsoft 365       *)
(* clientId or an Asana accessToken; otherwise it resolves the snapshot's  *)
(* appConfig and, when the result differs from the held configuration,     *)
(* builds a new SyncService, whose identity map is empty.  Neither         *)
(* window.__KONTENT_APP_CONFIG__ nor a config URL parameter is set, the    *)
(* contexts carry no syncSettings (the four toggles resolve to true), and  *)
(* initializeApp has constructed the first service.                        *)
(***************************************************************************)
\* context.appConfig: undefined, the JSON text "null", or a JSON object whose adapter
\* sections may omit the enabled flag (<<>>)
UndefinedAppConfig == [kind |-> "undefined"]
NullAppConfig == [kind |-> "null"]
ObjectAppConfig(clientId, tenantAndSecret, msEnabled, accessToken, asanaEnabled) ==
    [kind |-> "object", clientId |-> clientId, tenantAndSecret |-> tenantAndSecret,
     msEnabled |-> msEnabled, accessToken |-> accessToken, asanaEnabled |-> asanaEnabled]

ContextAppConfigs == {
    UndefinedAppConfig,
    NullAppConfig,
    ObjectAppConfig(FALSE, FALSE, <<TRUE>>, FALSE, <<TRUE>>),
    ObjectAppConfig(FALSE, FALSE, <<>>, TRUE, <<TRUE>>),
    ObjectAppConfig(TRUE, FALSE, <<TRUE>>, FALSE, <<FALSE>>),
    ObjectAppConfig(TRUE, TRUE, <<TRUE>>, TRUE, <<TRUE>>)}

\* Mutant of GetAppConfigFromData: an omitted enabled flag resolves to true.
GetAppConfigFromData_EnabledByDefault(data) ==
    [clientId |-> data.clientId, tenantAndSecret |-> data.tenantAndSecret,
     msEnabled |-> IF data.msEnabled = <<>> THEN TRUE ELSE data.msEnabled[1],
     accessToken |-> data.accessToken,
     asanaEnabled |-> IF data.asanaEnabled = <<>> THEN TRUE ELSE data.asanaEnabled[1]]

\* getAppConfigFromData: `|| ''` for the credentials, `?? false` for the enabled flags
GetAppConfigFromData(data) ==
    [clientId |-> data.clientId, tenantAndSecret |-> data.tenantAndSecret,
     msEnabled |-> IF data.msEnabled = <<>> THEN FALSE ELSE data.msEnabled[1],
     accessToken |-> data.accessToken,
     asanaEnabled |-> IF data.asanaEnabled = <<>> THEN FALSE ELSE data.asanaEnabled[1]]

\* getAppConfig(context) for a context whose appConfig is undefined (config stays {})
\* or parses to an object; for the JSON text "null" it throws a TypeError
GetAppConfig(ctx) ==
    IF ctx.kind = "undefined"
    THEN GetAppConfigFromData(ObjectAppConfig(FALSE, FALSE, <<>>, FALSE, <<>>))
    ELSE GetAppConfigFromData(ctx)

\* Mutant of HasCredential: the held configuration is never taken to have credentials.
HasCredential_Never(appConfig) == FALSE

\* currentAppConfig.microsoft365?.clientId || currentAppConfig.asana?.accessToken
HasCredential(appConfig) == appConfig.clientId \/ appConfig.accessToken

\* this.config of a SyncService built from a resolved configuration
ServiceConfig(appConfig) ==
    [msEnabled |-> appConfig.msEnabled,
     msCredentials |-> appConfig.clientId /\ appConfig.tenantAndSecret,
     asanaEnabled |-> appConfig.asanaEnabled,
     asanaAccessToken |-> appConfig.accessToken,
     createCalendarEvents |-> TRUE, createTasks |-> TRUE]

\* syncContext(context) on a service that has just been constructed: its map is empty
NewServiceInvocation(e, c) ==
    [pc |-> "start", contentItemId |-> e[1], languageId |-> e[2], key |-> SyncKey(e[1], e[2]),
     contributors |-> c,
     existingSync |-> 0, existingEventId |-> None, existingTaskId |-> None,
     taskIdAtStart |-> None, msIsEnabled |-> FALSE,
     i |-> 0, ms365Calls |-> <<>>, asanaCalls |-> <<>>]

\* syncContext on a service just constructed with config cfg: ms365Service.isEnabled()
\* is false (its client is still null), then the task gate and syncToAsana
FirstSyncOfNewService(st, t, cfg) ==
    IF cfg.createTasks /\ AsanaIsEnabled(cfg)
    THEN IF ~cfg.asanaEnabled THEN UpdateSyncMap(st, t) ELSE IssueAsanaCall(st, None)
    ELSE UpdateSyncMap(st, t)

\* currentAppConfig = appConfig; syncService = new SyncService(appConfig); then the rest
\* of the callback with the new service
ReplaceService(page, e, ctx) ==
    LET appConfig == GetAppConfig(ctx)
        cfg == ServiceConfig(appConfig)
        n == Len(snaps) + 1
        t == Len(invs) + 1
        snap == NewSnapshot(page, e)
        newMap == [k \in SyncKeys |-> 0]
    IN /\ currentAppConfig' = appConfig
       /\ currentResponse' = ctx
       /\ config' = cfg
       /\ client' = "null"
       /\ tokenFetch' = IF ConstructorStartsClient(cfg) THEN "pending" ELSE "none"
       /\ IF ~Extractable(page)
          THEN /\ snaps' = PutSnapshot(n, [snap EXCEPT !.pc = "skipped"])
               /\ syncMap' = newMap
               /\ UNCHANGED <<heap, invs>>
          ELSE IF kontent.hasManagementApi /\ kontent.syncWorkflowSteps
          THEN /\ snaps' = PutSnapshot(n, [snap EXCEPT !.pc = "workflowFetch"])
               /\ syncMap' = newMap
               /\ UNCHANGED <<heap, invs>>
          ELSE IF kontent.hasManagementApi /\ kontent.syncContributors
          THEN /\ snaps' = PutSnapshot(n, [snap EXCEPT !.pc = "contributorsFetch"])
               /\ syncMap' = newMap
               /\ UNCHANGED <<heap, invs>>
          ELSE /\ Len(invs) < MaxInvocations
               /\ Commit(FirstSyncOfNewService(
                             [syncMap |-> newMap, heap |-> heap,
                              inv |-> NewServiceInvocation(e, snap.contributors)], t, cfg), t)
               /\ snaps' = PutSnapshot(n, [snap EXCEPT !.pc = "synced", !.inv = t])

\* the observer callback for a snapshot of page `page` whose appConfig is ctx
ContextChangeWithConfig(page, e, ctx) ==
    /\ Len(snaps) < MaxSnapshots
    /\ IF HasCredential(currentAppConfig)
       THEN /\ HandleContext(page, e)
            /\ currentResponse' = ctx
            /\ UNCHANGED currentAppConfig
       ELSE IF ctx.kind = "null"
       THEN /\ snaps' = PutSnapshot(Len(snaps) + 1, [NewSnapshot(page, e) EXCEPT !.pc = "threw"])
            /\ UNCHANGED <<config, client, tokenFetch, syncMap, heap, invs, configVars>>
       ELSE IF GetAppConfig(ctx) = currentAppConfig
       THEN /\ HandleContext(page, e)
            /\ currentResponse' = ctx
            /\ UNCHANGED currentAppConfig
       ELSE ReplaceService(page, e, ctx)
    /\ UNCHANGED <<kontent, pureVars>>

FullEnrichment == [hasManagementApi |-> TRUE, syncWorkflowSteps |-> TRUE, syncContributors |-> TRUE]
ContributorsOnly == [hasManagementApi |-> TRUE, syncWorkflowSteps |-> FALSE, syncContributors |-> TRUE]

\* initializeApp: the initial context's appConfig is resolved and the service constructed
InitReconfig ==
    /\ currentResponse \in ContextAppConfigs \ {NullAppConfig}
    /\ currentAppConfig = GetAppConfig(currentResponse)
    /\ config = ServiceConfig(currentAppConfig)
    /\ client = "null"
    /\ tokenFetch = IF ConstructorStartsClient(config) THEN "pending" ELSE "none"
    /\ syncMap = [k \in SyncKeys |-> 0]
    /\ heap = [r \in Refs |-> EmptyRecord]
    /\ invs = <<>>
    /\ snaps = <<>>
    /\ kontent \in {NoEnrichment, FullEnrichment, ContributorsOnly}
    /\ keyIn = <<>>
    /\ keyOut = <<>>
    /\ winIn = <<>>
    /\ winOut = <<>>
    /\ adIn = <<>>
    /\ adOut = <<>>

NextReconfig ==
    \/ \E page \in Pages, e \in Entities, ctx \in ContextAppConfigs :
          ContextChangeWithConfig(page, e, ctx)
    \/ \E n \in 1..MaxSnapshots, outcome \in {"step", "none", "failed"} :
          WorkflowStepResponse(n, outcome)
    \/ \E n \in 1..MaxSnapshots, failed \in BOOLEAN, c \in Contributors :
          ContributorsResponse(n, failed, c)
    \/ \E t \in 1..MaxInvocations, ok \in BOOLEAN : Ms365Response(t, ok)
    \/ \E t \in 1..MaxInvocations, ok \in BOOLEAN : AsanaResponse(t, ok)
    \/ InitializeClientOk
    \/ InitializeClientFail

SpecReconfig == InitReconfig /\ [][NextReconfig]_vars

(***************************************************************************)
(* The key construction on its own: syncContext builds the key of one      *)
(* (contentItemId, languageId) pair and getSyncStatus that of another.     *)
(***************************************************************************)
IdPairs == IdStrings \X IdStrings

BuildSyncKeys ==
    /\ keyOut = <<>>
    /\ keyOut' = <<SyncKey(keyIn[1][1], keyIn[1][2]), SyncKey(keyIn[2][1], keyIn[2][2])>>
    /\ UNCHANGED <<config, client, tokenFetch, syncMap, heap, invs, observerVars,
                   keyIn, winIn, winOut, adIn, adOut>>

InitKey ==
    /\ config = [msEnabled |-> FALSE, msCredentials |-> FALSE,
                 asanaEnabled |-> FALSE, asanaAccessToken |-> FALSE,
                 createCalendarEvents |-> TRUE, createTasks |-> TRUE]
    /\ client = "null"
    /\ tokenFetch = "none"
    /\ syncMap = [k \in SyncKeys |-> 0]
    /\ heap = [r \in Refs |-> EmptyRecord]
    /\ invs = <<>>
    /\ snaps = <<>>
    /\ kontent = NoEnrichment
    /\ currentAppConfig = AppConfigOf(config)
    /\ currentResponse = ContextOf(currentAppConfig)
    /\ keyIn \in IdPairs \X IdPairs
    /\ keyOut = <<>>
    /\ winIn = <<>>
    /\ winOut = <<>>
    /\ adIn = <<>>
    /\ adOut = <<>>

NextKey == BuildSyncKeys

SpecKey == InitKey /\ [][NextKey]_vars

(***************************************************************************)
(* A service that is constructed with everything disabled and is never     *)
(* called: the state of the program around the functions examined on their *)
(* own.                                                                    *)
(***************************************************************************)
IdleService ==
    /\ config = [msEnabled |-> FALSE, msCredentials |-> FALSE,
                 asanaEnabled |-> FALSE, asanaAccessToken |-> FALSE,
                 createCalendarEvents |-> TRUE, createTasks |-> TRUE]
    /\ client = "null"
    /\ tokenFetch = "none"
    /\ syncMap = [k \in SyncKeys |-> 0]
    /\ heap = [r \in Refs |-> EmptyRecord]
    /\ invs = <<>>
    /\ snaps = <<>>
    /\ kontent = NoEnrichment
    /\ currentAppConfig = AppConfigOf(config)
    /\ currentResponse = ContextOf(currentAppConfig)

(***************************************************************************)
(* The event window of syncToMicrosoft365.  Times are Date time values,    *)
(* milliseconds since the epoch; the values used are far inside the range  *)
(* of Date (8.64e15 ms), where the additions are exact.                    *)
(***************************************************************************)
QuarterHourMs == 15 * 60 * 1000
\* the due dates and the clock readings: every quarter of an hour from the epoch on
TimeValues == {k * QuarterHourMs : k \in 0..MaxQuarterHours}
\* context.dueDate: absent, or a Date
DueDates == {None} \cup {<<d>> : d \in TimeValues}

\* Mutant of EventWindow: the event starts a full hour before the due date.
EventWindow_HourBefore(dueDate, now) ==
    LET startTime == IF dueDate # None
                     THEN dueDate[1] - 60 * 60 * 1000
                     ELSE now + 24 * 60 * 60 * 1000
        endTime == IF dueDate # None
                   THEN dueDate[1] + 30 * 60 * 1000
                   ELSE startTime + 60 * 60 * 1000
    IN <<startTime, endTime>>

\* startTime and endTime as syncToMicrosoft365 computes them; now is Date.now()
EventWindow(dueDate, now) ==
    LET startTime == IF dueDate # None
                     THEN dueDate[1] - 30 * 60 * 1000
                     ELSE now + 24 * 60 * 60 * 1000
        endTime == IF dueDate # None
                   THEN dueDate[1] + 30 * 60 * 1000
                   ELSE startTime + 60 * 60 * 1000
    IN <<startTime, endTime>>

ComputeWindow ==
    /\ winOut = <<>>
    /\ winOut' = EventWindow(winIn.dueDate, winIn.now)
    /\ UNCHANGED <<config, client, tokenFetch, syncMap, heap, invs, observerVars,
                   keyIn, keyOut, winIn, adIn, adOut>>

InitWindow ==
    /\ IdleService
    /\ keyIn = <<>>
    /\ keyOut = <<>>
    /\ winIn \in [dueDate : DueDates, now : {0, QuarterHourMs, MaxQuarterHours * QuarterHourMs}]
    /\ winOut = <<>>
    /\ adIn = <<>>
    /\ adOut = <<>>

NextWindow == ComputeWindow

SpecWindow == InitWindow /\ [][NextWindow]_vars

(***************************************************************************)
(* The adapters' create and update on their own.  One call is given the    *)
(* adapter's configuration and what the network does with each request it  *)
(* sends; it returns [threw, id, ok, assignee]: whether the promise was    *)
(* rejected, the id a create resolved to (None: null or undefined), the    *)
(* boolean an update resolved to, and the assignee put into the payload.   *)
(***************************************************************************)
\* What happens to one HTTP request: fetch rejects; the status is not 2xx; the body
\* is not JSON; the body is JSON null; it is an object without the expected member
\* (id, gid, workspace.gid, a user with the e-mail); it has the expected member.
Responses == {"networkError", "httpError", "invalidJson", "null", "noId", "ok"}
FailedResponses == {"networkError", "httpError", "invalidJson"}

Adapters == {"asana", "graph", "proxy"}

Thrown == [threw |-> TRUE, body |-> "none"]
Returned(id, ok, assignee) == [threw |-> FALSE, id |-> id, ok |-> ok, assignee |-> assignee]
Rejected == [threw |-> TRUE, id |-> None, ok |-> FALSE, assignee |-> None]

\* AsanaService.makeRequest: throws without a token, when fetch rejects, when the
\* response is not ok, when response.json() rejects, and on `data.data` of null
MakeRequest(hasToken, resp) ==
    IF ~hasToken THEN Thrown
    ELSE IF resp \in FailedResponses THEN Thrown
    ELSE IF resp = "null" THEN Thrown
    ELSE [threw |-> FALSE, body |-> resp]

\* AsanaService.findUserByEmail: the user's gid, or null; its own catch returns null
FindUserByEmail(in) ==
    IF ~in.workspaceId /\ ~in.projectId THEN None
    ELSE LET project == MakeRequest(in.credential, in.projectResp)
             users == MakeRequest(in.credential, in.usersResp)
         IN IF ~in.workspaceId /\ project.threw THEN None
            ELSE IF ~in.workspaceId /\ project.body # "ok" THEN None
            ELSE IF users.threw THEN None
            ELSE IF users.body = "ok" THEN <<"userGid">> ELSE None

\* Mutant of CreateTask: no catch around the request, its error reaches the caller.
CreateTask_NoCatch(in) ==
    IF ~in.enabled \/ ~in.credential THEN Returned(None, FALSE, None)
    ELSE LET assigneeGid == IF in.assignee THEN FindUserByEmail(in) ELSE None
             task == MakeRequest(in.credential, in.resp)
         IN IF task.threw THEN Rejected
            ELSE IF task.body = "ok" THEN Returned(<<"gid">>, TRUE, assigneeGid)
            ELSE Returned(None, FALSE, assigneeGid)

\* Mutant of CreateTask: a task is created only for an assignee that was found.
CreateTask_RequiresAssignee(in) ==
    IF ~in.enabled \/ ~in.credential THEN Returned(None, FALSE, None)
    ELSE LET assigneeGid == IF in.assignee THEN FindUserByEmail(in) ELSE None
             task == MakeRequest(in.credential, in.resp)
         IN IF in.assignee /\ assigneeGid = None THEN Returned(None, FALSE, None)
            ELSE IF task.threw THEN Returned(None, FALSE, assigneeGid)
            ELSE IF task.body = "ok" THEN Returned(<<"gid">>, TRUE, assigneeGid)
            ELSE Returned(None, FALSE, assigneeGid)

\* AsanaService.createTask
CreateTask(in) ==
    IF ~in.enabled \/ ~in.credential THEN Returned(None, FALSE, None)
    ELSE LET assigneeGid == IF in.assignee THEN FindUserByEmail(in) ELSE None
             task == MakeRequest(in.credential, in.resp)
         IN IF task.threw THEN Returned(None, FALSE, assigneeGid)
            ELSE IF task.body = "ok" THEN Returned(<<"gid">>, TRUE, assigneeGid)
            ELSE Returned(None, FALSE, assigneeGid)

\* AsanaService.updateTask
UpdateTask(in) ==
    IF ~in.enabled \/ ~in.credential THEN Returned(None, FALSE, None)
    ELSE LET assigneeGid == IF in.assignee THEN FindUserByEmail(in) ELSE None
             task == MakeRequest(in.credential, in.resp)
         IN IF task.threw THEN Returned(None, FALSE, assigneeGid)
            ELSE Returned(None, TRUE, assigneeGid)

\* this.client.api(...).post / patch of the Graph client: rejects when the request
\* fails, else resolves to the parsed body
GraphRequest(resp) ==
    IF resp \in FailedResponses THEN Thrown ELSE [threw |-> FALSE, body |-> resp]

\* Microsoft365Service.createCalendarEvent (Graph client); credential: this.client is set
GraphCreateCalendarEvent(in) ==
    IF ~in.credential \/ ~in.enabled THEN Returned(None, FALSE, None)
    ELSE LET createdEvent == GraphRequest(in.resp)
         IN IF createdEvent.threw THEN Returned(None, FALSE, None)
            ELSE IF createdEvent.body = "null" THEN Returned(None, FALSE, None)
            ELSE IF createdEvent.body = "ok" THEN Returned(<<"id">>, TRUE, None)
            ELSE Returned(None, FALSE, None)

\* Microsoft365Service.updateCalendarEvent (Graph client)
GraphUpdateCalendarEvent(in) ==
    IF ~in.credential \/ ~in.enabled THEN Returned(None, FALSE, None)
    ELSE IF GraphRequest(in.resp).threw THEN Returned(None, FALSE, None)
    ELSE Returned(None, TRUE, None)

\* Microsoft365Service.callProxy; hasProxyUrl: getProxyBaseUrl() is not null
CallProxy(hasProxyUrl, resp) ==
    IF ~hasProxyUrl THEN Thrown
    ELSE IF resp \in FailedResponses THEN Thrown
    ELSE [threw |-> FALSE, body |-> resp]

\* Microsoft365Service.createCalendarEvent (proxy); credential: config.proxyUrl is set
ProxyCreateCalendarEvent(in) ==
    IF ~(in.enabled /\ in.credential) THEN Returned(None, FALSE, None)
    ELSE LET result == CallProxy(in.credential, in.resp)
         IN IF result.threw THEN Returned(None, FALSE, None)
            ELSE IF result.body = "ok" THEN Returned(<<"id">>, TRUE, None)
            ELSE Returned(None, FALSE, None)

\* Microsoft365Service.updateCalendarEvent (proxy)
ProxyUpdateCalendarEvent(in) ==
    IF ~(in.enabled /\ in.credential) THEN Returned(None, FALSE, None)
    ELSE IF CallProxy(in.credential, in.resp).threw THEN Returned(None, FALSE, None)
    ELSE Returned(None, TRUE, None)

AdapterInputs ==
    [adapter : Adapters, op : {"create", "update"}, enabled : BOOLEAN, credential : BOOLEAN,
     assignee : BOOLEAN, workspaceId : BOOLEAN, projectId : BOOLEAN,
     projectResp : {"httpError", "noId", "ok"}, usersResp : {"networkError", "noId", "ok"},
     resp : Responses]

AdapterCall ==
    /\ adOut = <<>>
    /\ adOut' = CASE adIn.adapter = "asana" /\ adIn.op = "create" -> CreateTask(adIn)
                  [] adIn.adapter = "asana" /\ adIn.op = "update" -> UpdateTask(adIn)
                  [] adIn.adapter = "graph" /\ adIn.op = "create" -> GraphCreateCalendarEvent(adIn)
                  [] adIn.adapter = "graph" /\ adIn.op = "update" -> GraphUpdateCalendarEvent(adIn)
                  [] adIn.adapter = "proxy" /\ adIn.op = "create" -> ProxyCreateCalendarEvent(adIn)
                  [] adIn.adapter = "proxy" /\ adIn.op = "update" -> ProxyUpdateCalendarEvent(adIn)
    /\ UNCHANGED <<config, client, tokenFetch, syncMap, heap, invs, observerVars,
                   keyIn, keyOut, winIn, winOut, adIn>>

InitAdapter ==
    /\ IdleService
    /\ keyIn = <<>>
    /\ keyOut = <<>>
    /\ winIn = <<>>
    /\ winOut = <<>>
    /\ adIn \in AdapterInputs
    /\ adOut = <<>>

NextAdapter == AdapterCall

SpecAdapter == InitAdapter /\ [][NextAdapter]_vars

(***************************************************************************)
(* The calendar proxy path: one createCalendarEvent of the proxy-based     *)
(* Microsoft365Service, answered by the proxy function (netlify/functions/ *)
(* ms365.js), inside a syncContext for one contributor.  The request       *)
(* callProxy sends is a POST with userPrincipalName and eventPayload, and  *)
(* it reaches the function.                                                *)
(***************************************************************************)
GraphStatuses == {200, 201, 400, 401, 404, 500, 503}
\* the body of the Graph response: a JSON object with an id, one without, JSON null,
\* or text that is not JSON
GraphBodies == {"id", "noId", "null", "text"}

\* What the proxy function meets: a required environment variable is missing, the token
\* request is answered with an error status or fails, the Graph request fails, or
\* Graph answers.
ProxyInputs ==
    {[kind |-> k, status |-> 0, body |-> "null"] :
        k \in {"envMissing", "tokenHttpError", "tokenNetworkError", "graphNetworkError"}}
    \cup [kind : {"graphResponse"}, status : GraphStatuses, body : GraphBodies]

\* proxyGraphRequest: throws when getAccessToken or a fetch throws, else returns the
\* status of the Graph response and its body, parsed if it is JSON
ProxyGraphRequest(in) ==
    IF in.kind \in {"tokenHttpError", "tokenNetworkError", "graphNetworkError"}
    THEN [threw |-> TRUE, status |-> 0, data |-> "null"]
    ELSE [threw |-> FALSE, status |-> in.status, data |-> in.body]

\* Mutant of ProxyHandler: the function answers 200 whatever the status of Graph.
ProxyHandler_Always200(in) ==
    IF in.kind = "envMissing" THEN [statusCode |-> 500, body |-> "error"]
    ELSE LET result == ProxyGraphRequest(in)
         IN IF result.threw THEN [statusCode |-> 500, body |-> "error"]
            ELSE [statusCode |-> 200, body |-> result.data]

\* handler, for a POST whose body has userPrincipalName and eventPayload
ProxyHandler(in) ==
    IF in.kind = "envMissing" THEN [statusCode |-> 500, body |-> "error"]
    ELSE LET result == ProxyGraphRequest(in)
         IN IF result.threw THEN [statusCode |-> 500, body |-> "error"]
            ELSE [statusCode |-> result.status, body |-> result.data]

\* the function's answer as callProxy's fetch sees it: response.ok is false outside
\* 200..299; the body is JSON.stringify(result.data), so response.json() yields the
\* object, null, or (for text) a string, which has no id
ProxyReplyAsResponse(reply) ==
    IF reply.statusCode \notin 200..299 THEN "httpError"
    ELSE IF reply.body = "id" THEN "ok"
    ELSE IF reply.body = "null" THEN "null"
    ELSE "noId"

\* createCalendarEvent through callProxy and the proxy function
ProxyPath(in) ==
    LET reply == ProxyHandler(in)
        resp == ProxyReplyAsResponse(reply)
        call == [adapter |-> "proxy", op |-> "create", enabled |-> TRUE, credential |-> TRUE,
                 resp |-> resp]
    IN [reply |-> reply,
        raised |-> CallProxy(TRUE, resp).threw,
        id |-> ProxyCreateCalendarEvent(call).id]

\* a syncContext for one contributor starts and calls createCalendarEvent
ProxySyncStart(e) ==
    /\ invs = <<>>
    /\ SyncContextStart(e, [defined |-> TRUE, emails |-> <<"u1">>])

\* createCalendarEvent returns what the proxy path yields; syncToMicrosoft365 stores
\* the id if there is one and syncContext goes on
ProxyCreateResponse ==
    /\ Len(invs) = 1
    /\ invs[1].pc = "ms365Call"
    /\ adOut = <<>>
    /\ adOut' = ProxyPath(adIn)
    /\ Commit(Ms365Return([syncMap |-> syncMap, heap |-> heap, inv |-> invs[1]], 1,
                          ProxyPath(adIn).id # None), 1)
    /\ UNCHANGED <<config, client, tokenFetch, observerVars, keyIn, keyOut, winIn, winOut, adIn>>

\* a service whose calendar adapter (enabled, with a proxy URL) and task adapter report
\* isEnabled(), both toggles on, nothing synchronized yet
InitProxy ==
    /\ config = [msEnabled |-> TRUE, msCredentials |-> TRUE,
                 asanaEnabled |-> TRUE, asanaAccessToken |-> TRUE,
                 createCalendarEvents |-> TRUE, createTasks |-> TRUE]
    /\ client = "ready"
    /\ tokenFetch = "done"
    /\ syncMap = [k \in SyncKeys |-> 0]
    /\ heap = [r \in Refs |-> EmptyRecord]
    /\ invs = <<>>
    /\ snaps = <<>>
    /\ kontent = NoEnrichment
    /\ currentAppConfig = AppConfigOf(config)
    /\ currentResponse = ContextOf(currentAppConfig)
    /\ keyIn = <<>>
    /\ keyOut = <<>>
    /\ winIn = <<>>
    /\ winOut = <<>>
    /\ adIn \in ProxyInputs
    /\ adOut = <<>>

NextProxy ==
    \/ \E e \in Entities : ProxySyncStart(e)
    \/ ProxyCreateResponse
    \/ \E ok \in BOOLEAN : AsanaResponse(1, ok)

SpecProxy == InitProxy /\ [][NextProxy]_vars

(***************************************************************************)
(* Configuration of the proxy-based calendar adapter: a service built from *)
(* the configuration that getAppConfig resolves from the configuration     *)
(* data, with the proxy-based Microsoft365Service as its calendar adapter. *)
(***************************************************************************)
\* The configuration data: whether microsoft365.enabled and
\* syncSettings.createCalendarEvents are absent or a boolean, whether
\* microsoft365.proxyUrl and microsoft365.clientId are non-empty.  The asana section
\* is enabled with a token.
ProxyConfigData ==
    [enabled : {<<>>, <<TRUE>>, <<FALSE>>}, proxyUrl : BOOLEAN, clientId : BOOLEAN,
     createCalendarEvents : {<<>>, <<TRUE>>, <<FALSE>>}]

\* the microsoft365 member of getAppConfigFromData(data): clientId (tenantId and
\* clientSecret likewise) and enabled, and no other member
ResolveMicrosoft365(data) ==
    [clientId |-> data.clientId,
     enabled |-> IF data.enabled = <<>> THEN FALSE ELSE data.enabled[1]]

\* syncSettings.createCalendarEvents of getAppConfigFromData(data)
ResolveCreateCalendarEvents(data) ==
    IF data.createCalendarEvents = <<>> THEN TRUE ELSE data.createCalendarEvents[1]

\* getProxyBaseUrl() is not null: this.config?.proxyUrl is a non-empty string
HasProxyBaseUrl(msConfig) ==
    IF "proxyUrl" \in DOMAIN msConfig THEN msConfig.proxyUrl ELSE FALSE

\* Microsoft365Service.isEnabled (proxy)
ProxyIsEnabled(msConfig) == msConfig.enabled /\ HasProxyBaseUrl(msConfig)

\* The service after initializeApp: config holds the resolved configuration, and the
\* calendar adapter is ready iff it has a proxy base URL.
InitProxyConfig ==
    /\ adIn \in ProxyConfigData
    /\ adOut = <<>>
    /\ config = [msEnabled |-> ResolveMicrosoft365(adIn).enabled,
                 msCredentials |-> HasProxyBaseUrl(ResolveMicrosoft365(adIn)),
                 asanaEnabled |-> TRUE, asanaAccessToken |-> TRUE,
                 createCalendarEvents |-> ResolveCreateCalendarEvents(adIn),
                 createTasks |-> TRUE]
    /\ client = IF HasProxyBaseUrl(ResolveMicrosoft365(adIn)) THEN "ready" ELSE "null"
    /\ tokenFetch = "none"
    /\ syncMap = [k \in SyncKeys |-> 0]
    /\ heap = [r \in Refs |-> EmptyRecord]
    /\ invs = <<>>
    /\ snaps = <<>>
    /\ kontent = NoEnrichment
    /\ currentAppConfig = AppConfigOf(config)
    /\ currentResponse = ContextOf(currentAppConfig)
    /\ keyIn = <<>>
    /\ keyOut = <<>>
    /\ winIn = <<>>
    /\ winOut = <<>>

\* Item-editor notifications and the answers to the task calls.  No calendar call is
\* ever outstanding, so no calendar call returns.
NextProxyConfig ==
    \/ \E e \in Entities, c \in Contributors : SyncContextStart(e, c)
    \/ \E t \in 1..MaxInvocations, ok \in BOOLEAN : AsanaResponse(t, ok)

SpecProxyConfig == InitProxyConfig /\ [][NextProxyConfig]_vars

(***************************************************************************)
(* Defaults of the configuration.  A service built by initializeApp from   *)
(* configuration data in which enabled flags and syncSettings toggles may  *)
(* be absent, or built directly from an AppConfig without syncSettings.    *)
(* Both adapters have their credentials.                                   *)
(***************************************************************************)
\* a boolean member of the configuration data: absent, or a boolean
OptionalBooleans == {<<>>, <<TRUE>>, <<FALSE>>}

ToggleNames == {"syncContributors", "syncWorkflowSteps", "createCalendarEvents", "createTasks"}

\* config.syncSettings of the configuration data: absent, or an object whose toggles
\* may be absent
SyncSettingsData == {<<>>} \cup {<<ss>> : ss \in [ToggleNames -> OptionalBooleans]}

\* The inputs: configuration data for getAppConfigFromData, or an AppConfig that has
\* no syncSettings member and is handed to new SyncService as it is.
DefaultsInputs ==
    {[source |-> "data",
      data |-> ObjectAppConfig(TRUE, TRUE, ms, TRUE, as),
      syncSettings |-> ss] :
        ms \in OptionalBooleans, as \in OptionalBooleans, ss \in SyncSettingsData}
    \cup
    {[source |-> "appConfig",
      data |-> ObjectAppConfig(TRUE, TRUE, <<ms>>, TRUE, <<as>>),
      syncSettings |-> <<>>] :
        ms \in BOOLEAN, as \in BOOLEAN}

\* the syncSettings member of getAppConfigFromData(config): `?? true` for each toggle
ResolveSyncSettings(syncSettings) ==
    [n \in ToggleNames |->
        IF syncSettings = <<>> THEN TRUE
        ELSE IF syncSettings[1][n] = <<>> THEN TRUE
        ELSE syncSettings[1][n][1]]

\* the AppConfig the service is built from: its adapter sections, and its syncSettings
\* member if it has one
DefaultsAppConfig(in) ==
    [adapters |-> GetAppConfigFromData(in.data),
     syncSettings |-> IF in.source = "data"
                      THEN <<ResolveSyncSettings(in.syncSettings)>>
                      ELSE <<>>]

\* Mutant of ServiceSyncSettings: without syncSettings every toggle is off.
ServiceSyncSettings_ClosedByDefault(appConfig) ==
    IF appConfig.syncSettings = <<>>
    THEN [n \in ToggleNames |-> FALSE]
    ELSE appConfig.syncSettings[1]

\* const syncSettings = this.config.syncSettings || { ...all true }
ServiceSyncSettings(appConfig) ==
    IF appConfig.syncSettings = <<>>
    THEN [n \in ToggleNames |-> TRUE]
    ELSE appConfig.syncSettings[1]

\* new SyncService(appConfig) for the AppConfig of the input
InitDefaults ==
    /\ adIn \in DefaultsInputs
    /\ adOut = [appConfig |-> DefaultsAppConfig(adIn),
                syncSettings |-> ServiceSyncSettings(DefaultsAppConfig(adIn))]
    /\ config = [msEnabled |-> DefaultsAppConfig(adIn).adapters.msEnabled,
                 msCredentials |-> DefaultsAppConfig(adIn).adapters.clientId
                                   /\ DefaultsAppConfig(adIn).adapters.tenantAndSecret,
                 asanaEnabled |-> DefaultsAppConfig(adIn).adapters.asanaEnabled,
                 asanaAccessToken |-> DefaultsAppConfig(adIn).adapters.accessToken,
                 createCalendarEvents |->
                     ServiceSyncSettings(DefaultsAppConfig(adIn))["createCalendarEvents"],
                 createTasks |-> ServiceSyncSettings(DefaultsAppConfig(adIn))["createTasks"]]
    /\ client = "null"
    /\ tokenFetch = IF ConstructorStartsClient(config) THEN "pending" ELSE "none"
    /\ syncMap = [k \in SyncKeys |-> 0]
    /\ heap = [r \in Refs |-> EmptyRecord]
    /\ invs = <<>>
    /\ snaps = <<>>
    /\ kontent = NoEnrichment
    /\ currentAppConfig = AppConfigOf(config)
    /\ currentResponse = ContextOf(currentAppConfig)
    /\ keyIn = <<>>
    /\ keyOut = <<>>
    /\ winIn = <<>>
    /\ winOut = <<>>

NextDefaults ==
    \/ \E e \in Entities, c \in Contributors : SyncContextStartLive(e, c)
    \/ \E t \in 1..MaxLiveInvocations, ok \in BOOLEAN : Ms365Response(t, ok)
    \/ \E t \in 1..MaxLiveInvocations, ok \in BOOLEAN : AsanaResponse(t, ok)
    \/ InitializeClientOk
    \/ InitializeClientFail

SpecDefaults == InitDefaults /\ [][NextDefaults]_vars

(***************************************************************************)
(* The proxy function as an HTTP endpoint: any request, and the requests   *)
(* the function makes to the token endpoint and to Graph while handling it.*)
(***************************************************************************)
HttpMethods == {"OPTIONS", "GET", "POST"}

\* event.body: no body at all (JSON.parse throws), text that is not JSON (it throws),
\* the JSON text null (the destructuring throws), or a JSON object in which
\* userPrincipalName and eventPayload are truthy or not and eventId is absent, the
\* empty string, or an id
ProxyBodies ==
    {[kind |-> k, userPrincipalName |-> FALSE, eventPayload |-> FALSE, eventId |-> "absent"] :
        k \in {"none", "invalidJson", "null"}}
    \cup [kind : {"object"}, userPrincipalName : BOOLEAN, eventPayload : BOOLEAN,
          eventId : {"absent", "empty", "id"}]

ProxyRequests == [httpMethod : HttpMethods, body : ProxyBodies, outcome : ProxyInputs]

\* const method = eventId ? 'PATCH' : 'POST'
GraphMethod(eventId) == IF eventId = "id" THEN "PATCH" ELSE "POST"

\* the requests proxyGraphRequest makes: one to the token endpoint, and one to Graph
\* once getAccessToken has returned
ProxyGraphRequests(body, in) ==
    [tokenRequests |-> 1,
     graphRequests |-> IF in.kind \in {"tokenHttpError", "tokenNetworkError"}
                       THEN <<>>
                       ELSE <<GraphMethod(body.eventId)>>]

NoProxyRequests == [tokenRequests |-> 0, graphRequests |-> <<>>]

\* handler(event): the answer's status, and the requests made on the way
Handler(req) ==
    IF req.httpMethod = "OPTIONS" THEN [statusCode |-> 204, requests |-> NoProxyRequests]
    ELSE IF req.httpMethod # "POST" THEN [statusCode |-> 405, requests |-> NoProxyRequests]
    ELSE IF req.outcome.kind = "envMissing"
         THEN [statusCode |-> 500, requests |-> NoProxyRequests]
    ELSE IF req.body.kind # "object" THEN [statusCode |-> 500, requests |-> NoProxyRequests]
    ELSE IF ~req.body.userPrincipalName \/ ~req.body.eventPayload
         THEN [statusCode |-> 400, requests |-> NoProxyRequests]
    ELSE [statusCode |-> ProxyHandler(req.outcome).statusCode,
          requests |-> ProxyGraphRequests(req.body, req.outcome)]

\* one request reaches the function and is answered
HandlerCall ==
    /\ adOut = <<>>
    /\ adOut' = Handler(adIn)
    /\ UNCHANGED <<config, client, tokenFetch, syncMap, heap, invs, observerVars,
                   keyIn, keyOut, winIn, winOut, adIn>>

InitProxyRequest ==
    /\ IdleService
    /\ keyIn = <<>>
    /\ keyOut = <<>>
    /\ winIn = <<>>
    /\ winOut = <<>>
    /\ adIn \in ProxyRequests
    /\ adOut = <<>>

NextProxyRequest == HandlerCall

SpecProxyRequest == InitProxyRequest /\ [][NextProxyRequest]_vars

(***************************************************************************)
(* Vocabulary of the properties                                            *)
(***************************************************************************)
Invocations == 1..Len(invs)

\* getSyncStatus(contentItemId, languageId): the record of the key as a list of one
\* element, or None for null
GetSyncStatus(contentItemId, languageId) ==
    LET syncKey == SyncKey(contentItemId, languageId)
    IN IF syncMap[syncKey] = 0 THEN None ELSE <<heap[syncMap[syncKey]]>>

\* the id the identity map holds for a key and an adapter (None: no record or no id)
MapId(k, field) == FieldOf(heap, syncMap[k], field)
\* the same in the state a step leads to
MapIdNext(k, field) == FieldOf(heap', syncMap'[k], field)

HasCreate(calls) == \E n \in 1..Len(calls) : calls[n].op = "create"
OnlyCreates(calls) == \A n \in 1..Len(calls) : calls[n].op = "create"
OnlyUpdates(calls) == \A n \in 1..Len(calls) : calls[n].op = "update"

\* the ids returned by the successful creates among calls
CreatedIds(calls) == {calls[n].id : n \in {m \in 1..Len(calls) : calls[m].op = "create" /\ calls[m].ok}}

\* the calls of an invocation that have returned
ReturnedMs365(inv) ==
    IF inv.pc = "ms365Call" THEN 1..(Len(inv.ms365Calls) - 1) ELSE 1..Len(inv.ms365Calls)
ReturnedAsana(inv) ==
    IF inv.pc = "asanaCall" THEN 1..(Len(inv.asanaCalls) - 1) ELSE 1..Len(inv.asanaCalls)

\* every create of the adapter in this invocation has returned no id
Ms365CreateFailed(inv) ==
    /\ inv.ms365Calls # <<>>
    /\ \A n \in 1..Len(inv.ms365Calls) :
         inv.ms365Calls[n].op = "create" /\ ~inv.ms365Calls[n].ok /\ n \in ReturnedMs365(inv)
AsanaCreateFailed(inv) ==
    /\ inv.asanaCalls # <<>>
    /\ \A n \in 1..Len(inv.asanaCalls) :
         inv.asanaCalls[n].op = "create" /\ ~inv.asanaCalls[n].ok /\ n \in ReturnedAsana(inv)

\* the gates of syncContext as this invocation evaluated them
DrivesMs365(inv) == config.createCalendarEvents /\ inv.msIsEnabled
DrivesAsana == config.createTasks /\ AsanaIsEnabled(config)

\* invocation t takes this step (it starts, or one of its calls returns)
StepOf(t) == t \in 1..Len(invs') /\ (t > Len(invs) \/ invs'[t] # invs[t])
\* invocation t completes in this step
Completes(t) == StepOf(t) /\ invs'[t].pc = "done"

(***************************************************************************)
(* C1  First write creates, later writes update.  For a key with no entry  *)
(* in syncMap, syncContext issues only creates (one task create, one       *)
(* calendar create per contributor) and, when a create succeeds, the next  *)
(* syncContext for the key (the one that finds the record this one wrote)  *)
(* issues update with the returned id and no second create.                *)
(***************************************************************************)
C1_FirstWriteThenUpdate ==
    \A a \in Invocations : invs[a].existingSync = 0 =>
        /\ OnlyCreates(invs[a].ms365Calls) /\ OnlyCreates(invs[a].asanaCalls)
        /\ (invs[a].pc = "done" /\ DrivesMs365(invs[a])) =>
               Len(invs[a].ms365Calls) = Len(invs[a].contributors.emails)
        /\ (invs[a].pc = "done" /\ DrivesAsana) => Len(invs[a].asanaCalls) = 1
        /\ \A b \in Invocations : invs[b].existingSync = FinalRef(a) =>
             /\ CreatedIds(invs[a].ms365Calls) # {} =>
                  \A n \in 1..Len(invs[b].ms365Calls) :
                      /\ invs[b].ms365Calls[n].op = "update"
                      /\ invs[b].ms365Calls[n].id \in CreatedIds(invs[a].ms365Calls)
             /\ CreatedIds(invs[a].asanaCalls) # {} =>
                  \A n \in 1..Len(invs[b].asanaCalls) :
                      /\ invs[b].asanaCalls[n].op = "update"
                      /\ invs[b].asanaCalls[n].id \in CreatedIds(invs[a].asanaCalls)

(***************************************************************************)
(* C2  Two syncContext invocations for the same key that are both in       *)
(* flight never both issue a create on the same adapter.                   *)
(***************************************************************************)
C2_NoDoubleCreate ==
    \A a \in Invocations, b \in Invocations :
        (a # b /\ invs[a].key = invs[b].key /\ invs[a].pc # "done" /\ invs[b].pc # "done") =>
            /\ ~(HasCreate(invs[a].ms365Calls) /\ HasCreate(invs[b].ms365Calls))
            /\ ~(HasCreate(invs[a].asanaCalls) /\ HasCreate(invs[b].asanaCalls))

(***************************************************************************)
(* C3  (amended) An invocation that starts while the identity map holds an *)
(* adapter's id for its key issues only updates on that adapter, never a   *)
(* create: calendar updates carry the id found at the start, and a         *)
(* completed invocation has issued exactly one task update and exactly one *)
(* calendar update per contributor (none for an empty list), provided the  *)
(* adapter is enabled and its syncSettings toggle is on.                   *)
(***************************************************************************)
C3_PopulatedRecordOnlyUpdates ==
    \A t \in Invocations :
        /\ invs[t].existingEventId # None =>
             /\ \A n \in 1..Len(invs[t].ms365Calls) :
                    /\ invs[t].ms365Calls[n].op = "update"
                    /\ invs[t].ms365Calls[n].id = invs[t].existingEventId
             /\ (invs[t].pc \in {"asanaCall", "done"} /\ DrivesMs365(invs[t])) =>
                    Len(invs[t].ms365Calls) = Len(invs[t].contributors.emails)
        /\ invs[t].taskIdAtStart # None =>
             /\ OnlyUpdates(invs[t].asanaCalls)
             /\ \A n \in 1..Len(invs[t].asanaCalls) : invs[t].asanaCalls[n].id # None
             /\ (invs[t].pc = "done" /\ DrivesAsana) => Len(invs[t].asanaCalls) = 1

\* a completed invocation that found both ids and updated two calendars and the task
C3_Witness ==
    \E t \in Invocations :
        /\ invs[t].pc = "done"
        /\ invs[t].existingEventId # None /\ invs[t].taskIdAtStart # None
        /\ Len(invs[t].ms365Calls) = 2 /\ OnlyUpdates(invs[t].ms365Calls)
        /\ Len(invs[t].asanaCalls) = 1 /\ OnlyUpdates(invs[t].asanaCalls)

\* C3 as stated: one update per enabled adapter and syncContext, whatever the contributors
C3_ExactlyOneUpdatePerAdapter ==
    \A t \in Invocations :
        (invs[t].pc = "done" /\ invs[t].existingEventId # None /\ invs[t].taskIdAtStart # None
           /\ DrivesMs365(invs[t]) /\ DrivesAsana) =>
            /\ Len(invs[t].ms365Calls) = 1 /\ OnlyUpdates(invs[t].ms365Calls)
            /\ Len(invs[t].asanaCalls) = 1 /\ OnlyUpdates(invs[t].asanaCalls)

(***************************************************************************)
(* C4  Once the identity map holds an id for a key and an adapter, no step *)
(* removes or replaces it.                                                 *)
(***************************************************************************)
C4_StoredIdStays ==
    [][\A k \in SyncKeys, f \in {"ms365EventId", "asanaTaskId"} :
           MapId(k, f) # None => MapIdNext(k, f) = MapId(k, f)]_vars

(***************************************************************************)
(* C5  A disabled adapter is inert.  An invocation that found the calendar *)
(* adapter's isEnabled() false issues no calendar call; while the task     *)
(* adapter's isEnabled() is false no task call is issued; and a record     *)
(* only ever holds ids returned by creates, so no record holds an id of an *)
(* adapter that was never enabled.                                         *)
(***************************************************************************)
C5_DisabledAdapterInert ==
    /\ \A t \in Invocations : ~invs[t].msIsEnabled => invs[t].ms365Calls = <<>>
    /\ ~AsanaIsEnabled(config) =>
          /\ \A t \in Invocations : invs[t].asanaCalls = <<>>
          /\ \A r \in Refs : heap[r].asanaTaskId = None
    /\ ~Ms365IsEnabled(config, client) =>
          /\ \A t \in Invocations : invs[t].ms365Calls = <<>>
          /\ \A r \in Refs : heap[r].ms365EventId = None
    /\ \A r \in Refs :
          /\ heap[r].ms365EventId # None =>
                \E t \in Invocations : heap[r].ms365EventId \in CreatedIds(invs[t].ms365Calls)
          /\ heap[r].asanaTaskId # None =>
                \E t \in Invocations : heap[r].asanaTaskId \in CreatedIds(invs[t].asanaCalls)

\* task adapter configured on but without a token, calendar adapter enabled:
\* a completed invocation has created a calendar event, and nothing else
C5_Witness ==
    /\ config.asanaEnabled /\ ~config.asanaAccessToken /\ config.createTasks
    /\ \E t \in Invocations :
          /\ invs[t].pc = "done"
          /\ CreatedIds(invs[t].ms365Calls) # {}
          /\ invs[t].asanaCalls = <<>>

(***************************************************************************)
(* C6  Partial failure isolation.  A completed syncContext has called each *)
(* adapter it drives whatever the other adapter returned, and when one     *)
(* adapter's create returned no id while the other adapter's call          *)
(* succeeded, the identity map holds, at completion, the succeeding        *)
(* adapter's id and no id for the failing adapter.                         *)
(***************************************************************************)
LastId(calls) == calls[Len(calls)].id

C6_PartialFailureIsolation ==
    [][\A t \in 1..MaxInvocations : Completes(t) =>
          LET inv == invs'[t]
              k == inv.key
          IN /\ DrivesAsana => Len(inv.asanaCalls) = 1
             /\ (DrivesMs365(inv) /\ config.msEnabled) =>
                    Len(inv.ms365Calls) = Len(inv.contributors.emails)
             /\ (AsanaCreateFailed(inv) /\ inv.ms365Calls # <<>>
                   /\ inv.ms365Calls[Len(inv.ms365Calls)].ok) =>
                    /\ MapIdNext(k, "ms365EventId") = LastId(inv.ms365Calls)
                    /\ MapIdNext(k, "asanaTaskId") = None
             /\ (Ms365CreateFailed(inv) /\ inv.asanaCalls # <<>>
                   /\ inv.asanaCalls[Len(inv.asanaCalls)].ok) =>
                    /\ MapIdNext(k, "asanaTaskId") = LastId(inv.asanaCalls)
                    /\ MapIdNext(k, "ms365EventId") = None]_vars

(***************************************************************************)
(* C7  When an adapter's create returns no id, that syncContext leaves the *)
(* identity map untouched for that adapter: no step of the invocation,     *)
(* from the failed create on, changes the id the map holds for its key and *)
(* that adapter; and the next syncContext for the key creates again.       *)
(***************************************************************************)
C7_FailedCreateLeavesMap ==
    [][\A t \in 1..MaxInvocations : StepOf(t) =>
          LET inv == invs'[t]
              k == inv.key
          IN /\ Ms365CreateFailed(inv) =>
                    MapIdNext(k, "ms365EventId") = MapId(k, "ms365EventId")
             /\ AsanaCreateFailed(inv) =>
                    MapIdNext(k, "asanaTaskId") = MapId(k, "asanaTaskId")
             /\ \A a \in Invocations :
                    (t > Len(invs) /\ inv.existingSync = FinalRef(a)) =>
                        /\ (Ms365CreateFailed(invs[a]) /\ inv.ms365Calls # <<>>) =>
                               OnlyCreates(inv.ms365Calls)
                        /\ (AsanaCreateFailed(invs[a]) /\ inv.asanaCalls # <<>>) =>
                               OnlyCreates(inv.asanaCalls)]_vars

(***************************************************************************)
(* C8  When an update fails, the stored id is neither cleared nor          *)
(* replaced: from then on the identity map keeps holding the id the        *)
(* failed update was issued with, so that later notifications update with  *)
(* it again.                                                               *)
(***************************************************************************)
C8_FailedUpdateKeepsId ==
    [][\A t \in Invocations :
          /\ \A n \in ReturnedMs365(invs[t]) :
                 (invs[t].ms365Calls[n].op = "update" /\ ~invs[t].ms365Calls[n].ok
                    /\ MapId(invs[t].key, "ms365EventId") = invs[t].ms365Calls[n].id) =>
                     MapIdNext(invs[t].key, "ms365EventId") = invs[t].ms365Calls[n].id
          /\ \A n \in ReturnedAsana(invs[t]) :
                 (invs[t].asanaCalls[n].op = "update" /\ ~invs[t].asanaCalls[n].ok
                    /\ MapId(invs[t].key, "asanaTaskId") = invs[t].asanaCalls[n].id) =>
                     MapIdNext(invs[t].key, "asanaTaskId") = invs[t].asanaCalls[n].id]_vars

(***************************************************************************)
(* C9  Storing one adapter's id for a key inserts a new record when the    *)
(* key has none and otherwise writes into the record the map holds; either *)
(* way only that adapter's field of that key changes: the other adapter's  *)
(* id and every other key are as before.  Checked for every create that is *)
(* awaiting its response, on the state in which the response arrives.      *)
(***************************************************************************)
StoreFrame(t, field, other, id) ==
    LET st == [syncMap |-> syncMap, heap |-> heap, inv |-> invs[t]]
        st2 == StoreId(st, t, field, id)
        k == invs[t].key
    IN /\ st2.syncMap[k] # 0
       /\ syncMap[k] # 0 => st2.syncMap[k] = syncMap[k]
       /\ FieldOf(st2.heap, st2.syncMap[k], field) = id
       /\ FieldOf(st2.heap, st2.syncMap[k], other) = MapId(k, other)
       /\ \A k2 \in SyncKeys \ {k} :
             /\ st2.syncMap[k2] = syncMap[k2]
             /\ FieldOf(st2.heap, st2.syncMap[k2], field) = MapId(k2, field)
             /\ FieldOf(st2.heap, st2.syncMap[k2], other) = MapId(k2, other)

C10_KeyInjective ==
    keyOut # <<>> => (keyIn[1] # keyIn[2] => keyOut[1] # keyOut[2])

(***************************************************************************)
(* C11  In one syncContext the calendar adapter is called once for every   *)
(* contributor of the context, in list order, and the task adapter is      *)
(* called exactly once, with the first contributor as assignee, or none    *)
(* when the list is empty.                                                 *)
(***************************************************************************)
C11_ContributorsPerAdapter ==
    \A t \in Invocations :
        LET inv == invs[t]
            emails == inv.contributors.emails
        IN /\ Len(inv.ms365Calls) <= Len(emails)
           /\ \A n \in 1..Len(inv.ms365Calls) : inv.ms365Calls[n].user = <<emails[n]>>
           /\ (inv.pc \in {"asanaCall", "done"} /\ DrivesMs365(inv)) =>
                  Len(inv.ms365Calls) = Len(emails)
           /\ Len(inv.asanaCalls) <= 1
           /\ \A n \in 1..Len(inv.asanaCalls) :
                  inv.asanaCalls[n].user = IF emails = <<>> THEN <<>> ELSE <<emails[1]>>
           /\ (inv.pc = "done" /\ DrivesAsana) => Len(inv.asanaCalls) = 1

\* a completed invocation with two contributors: two calendar calls, one task call for "u1"
C11_Witness ==
    \E t \in Invocations :
        /\ invs[t].pc = "done"
        /\ invs[t].contributors.emails = <<"u1", "u2">>
        /\ Len(invs[t].ms365Calls) = 2
        /\ invs[t].ms365Calls[1].user = <<"u1">> /\ invs[t].ms365Calls[2].user = <<"u2">>
        /\ Len(invs[t].asanaCalls) = 1 /\ invs[t].asanaCalls[1].user = <<"u1">>

C14_NotificationsKeepSyncing ==
    \A n \in 1..Len(snaps) :
        (snaps[n].page = "itemEditor"
           /\ snaps[n].pc \notin {"workflowFetch", "contributorsFetch"}) =>
            /\ snaps[n].pc = "synced"
            /\ snaps[n].inv \in Invocations
            /\ invs[snaps[n].inv].key = SyncKey(snaps[n].contentItemId, snaps[n].languageId)

\* the first invocation completed after a calendar call threw and its task create
\* returned no id; the second item-editor snapshot has started the second invocation
C14_Witness ==
    /\ Len(snaps) = 2 /\ Len(invs) = 2
    /\ invs[1].pc = "done"
    /\ \E n \in 1..Len(invs[1].ms365Calls) : invs[1].ms365Calls[n].threw
    /\ AsanaCreateFailed(invs[1])
    /\ snaps[2].page = "itemEditor" /\ snaps[2].inv = 2

(***************************************************************************)
(* C15  An adapter's isEnabled() is true exactly when its configuration    *)
(* has enabled = true and its credentials are present, with the same       *)
(* answer at every moment of the adapter's life, from construction on.     *)
(***************************************************************************)
C15_IsEnabledIffConfigured ==
    /\ Ms365IsEnabled(config, client) <=> (config.msEnabled /\ config.msCredentials)
    /\ AsanaIsEnabled(config) <=> (config.asanaEnabled /\ config.asanaAccessToken)

(***************************************************************************)
(* C17  The syncSettings toggles gate each adapter: with                   *)
(* createCalendarEvents false no calendar call is issued, with createTasks *)
(* false no task call is issued, whatever the adapters' enablement; and    *)
(* the adapter whose toggle is on is called as usual.                      *)
(***************************************************************************)
C17_TogglesGate ==
    /\ ~config.createCalendarEvents => \A t \in Invocations : invs[t].ms365Calls = <<>>
    /\ ~config.createTasks => \A t \in Invocations : invs[t].asanaCalls = <<>>
    /\ \A t \in Invocations : invs[t].pc = "done" =>
          /\ (~config.createCalendarEvents /\ DrivesAsana) => Len(invs[t].asanaCalls) = 1
          /\ (~config.createTasks /\ DrivesMs365(invs[t])) =>
                 Len(invs[t].ms365Calls) = Len(invs[t].contributors.emails)

\* createTasks is off while the task adapter is enabled: a completed invocation has
\* called the calendar adapter and not the task adapter
C17_Witness ==
    /\ ~config.createTasks /\ AsanaIsEnabled(config)
    /\ \E t \in Invocations :
          /\ invs[t].pc = "done"
          /\ invs[t].ms365Calls # <<>>
          /\ invs[t].asanaCalls = <<>>

(***************************************************************************)
(* C19  No retry inside a reconciliation: one syncContext issues at most   *)
(* one task call and at most one calendar call per contributor, no two of  *)
(* them for the same contributor, whatever the calls returned.             *)
(***************************************************************************)
C19_NoRetry ==
    \A t \in Invocations :
        /\ Len(invs[t].asanaCalls) <= 1
        /\ Len(invs[t].ms365Calls) <= Len(invs[t].contributors.emails)
        /\ \A n \in 1..Len(invs[t].ms365Calls), m \in 1..Len(invs[t].ms365Calls) :
               n # m => invs[t].ms365Calls[n].user # invs[t].ms365Calls[m].user

\* a completed invocation all of whose calls failed: two calendar creates, one task create
C19_Witness ==
    \E t \in Invocations :
        /\ invs[t].pc = "done"
        /\ Len(invs[t].ms365Calls) = 2 /\ Ms365CreateFailed(invs[t])
        /\ Len(invs[t].asanaCalls) = 1 /\ AsanaCreateFailed(invs[t])

(***************************************************************************)
(* C12  Every calendar call carries a window of exactly 60 minutes: with a *)
(* due date it runs from 30 minutes before to 30 minutes after it (due     *)
(* 12:00 gives 11:30 to 12:30); without one it starts 24 hours after the   *)
(* current time and ends one hour after its start.                         *)
(***************************************************************************)
C12_SixtyMinuteWindow ==
    winOut # <<>> =>
        /\ winOut[2] - winOut[1] = 3600000
        /\ winIn.dueDate # None =>
              /\ winOut[1] = winIn.dueDate[1] - 1800000
              /\ winOut[2] = winIn.dueDate[1] + 1800000
        /\ winIn.dueDate = <<43200000>> => winOut = <<41400000, 45000000>>
        /\ winIn.dueDate = None =>
              /\ winOut[1] = winIn.now + 86400000
              /\ winOut[2] = winOut[1] + 3600000

\* the window of a context due at 12:00 has been computed
C12_Witness ==
    /\ winIn # <<>> /\ winOut # <<>>
    /\ winIn.dueDate = <<43200000>>
    /\ winOut = <<41400000, 45000000>>

(***************************************************************************)
(* C16  An adapter's create and update never raise an error to the caller: *)
(* when the request fails in transport, gets a non-success status or an    *)
(* unparsable body, or the adapter is not enabled, create returns no id    *)
(* and update returns false; create returns an id only when the remote     *)
(* call succeeded and answered with one.                                   *)
(***************************************************************************)
C16_AdapterNeverThrows ==
    adOut # <<>> =>
        /\ ~adOut.threw
        /\ (adIn.resp \in {"networkError", "httpError", "invalidJson"}
              \/ ~adIn.enabled \/ ~adIn.credential) =>
               (adOut.id = None /\ ~adOut.ok)
        /\ adIn.op = "create" =>
               /\ adOut.id # None => (adIn.resp = "ok" /\ adIn.enabled /\ adIn.credential)
               /\ adIn.resp \in {"null", "noId"} => adOut.id = None
        /\ adIn.op = "update" => adOut.id = None

\* an enabled task adapter whose create request got a non-success status, after an
\* assignee lookup that failed as well: the call has returned no id
C16_Witness ==
    /\ adIn # <<>> /\ adOut # <<>>
    /\ adIn.adapter = "asana" /\ adIn.op = "create"
    /\ adIn.enabled /\ adIn.credential
    /\ adIn.assignee /\ adIn.workspaceId /\ adIn.usersResp = "networkError"
    /\ adIn.resp = "httpError"
    /\ ~adOut.threw /\ adOut.id = None

(***************************************************************************)
(* C18  (amended) When an auxiliary fetch fails, extractSyncContext still  *)
(* returns a sync context and syncContext is invoked with it: a failed     *)
(* workflow-step fetch leaves workflowStep absent, a failed contributors   *)
(* fetch leaves contributors an empty list.                                *)
(***************************************************************************)
C18_EnrichmentFailureProceeds ==
    \A n \in 1..Len(snaps) :
        /\ snaps[n].workflowFailed => snaps[n].workflowStep = "absent"
        /\ snaps[n].contributorsFailed =>
              snaps[n].contributors = [defined |-> TRUE, emails |-> <<>>]
        /\ ((snaps[n].workflowFailed \/ snaps[n].contributorsFailed)
               /\ snaps[n].pc \notin {"workflowFetch", "contributorsFetch"}) =>
              /\ snaps[n].pc = "synced"
              /\ snaps[n].inv \in Invocations
              /\ invs[snaps[n].inv].contributors = snaps[n].contributors

\* both fetches of a snapshot failed and its invocation has been started
C18_Witness ==
    \E n \in 1..Len(snaps) :
        /\ snaps[n].workflowFailed /\ snaps[n].contributorsFailed
        /\ snaps[n].pc = "synced" /\ snaps[n].inv \in Invocations

\* C18 as stated: the fields that could not be fetched are absent from the context
C18_FailedFieldsAbsent ==
    \A n \in 1..Len(snaps) :
        /\ snaps[n].workflowFailed => snaps[n].workflowStep = "absent"
        /\ snaps[n].contributorsFailed => ~snaps[n].contributors.defined

(***************************************************************************)
(* C20  Whether the task adapter is attempted depends only on its own      *)
(* enablement and the createTasks toggle: an exception thrown by a         *)
(* calendar call prevents neither the calendar calls for the remaining     *)
(* contributors nor the task call of the same syncContext.                 *)
(***************************************************************************)
C20_CalendarOutcomeIrrelevant ==
    \A t \in Invocations :
        /\ (invs[t].pc \in {"asanaCall", "done"} /\ DrivesMs365(invs[t])) =>
               Len(invs[t].ms365Calls) = Len(invs[t].contributors.emails)
        /\ invs[t].pc = "asanaCall" => DrivesAsana
        /\ invs[t].pc = "done" => (Len(invs[t].asanaCalls) = 1 <=> DrivesAsana)

\* the calendar call for the first of two contributors threw; the second call and
\* the task call were issued all the same
C20_Witness ==
    \E t \in Invocations :
        /\ invs[t].pc = "done"
        /\ Len(invs[t].ms365Calls) = 2 /\ invs[t].ms365Calls[1].threw
        /\ Len(invs[t].asanaCalls) = 1

(***************************************************************************)
(* C21  With no contributors (absent or an empty list) a syncContext       *)
(* issues no calendar create or update and stores no calendar id, even     *)
(* with the calendar adapter enabled: none of its steps puts a calendar id *)
(* into the identity map entry of its key; the task adapter is still       *)
(* called once, create or update, without an assignee.                     *)
(***************************************************************************)
C21_NoContributorsNoCalendar ==
    [][\A t \in 1..MaxInvocations :
          (StepOf(t) /\ invs'[t].contributors.emails = <<>>) =>
              LET inv == invs'[t]
              IN /\ inv.ms365Calls = <<>>
                 /\ MapIdNext(inv.key, "ms365EventId") \in {None, MapId(inv.key, "ms365EventId")}
                 /\ \A n \in 1..Len(inv.asanaCalls) : inv.asanaCalls[n].user = <<>>
                 /\ (inv.pc = "done" /\ DrivesAsana) => Len(inv.asanaCalls) = 1]_vars

(***************************************************************************)
(* C22  One calendar id per key.  A syncContext that finds no calendar id  *)
(* for its key issues one calendar create per contributor; each successful *)
(* create overwrites the id the record of the key holds, so the id left by *)
(* the contributor loop is the one the last successful create returned;    *)
(* and every update issued by a syncContext that starts after this one has *)
(* completed carries that single id.                                       *)
(***************************************************************************)
LastCreatedId(calls) ==
    LET ns == {n \in 1..Len(calls) : calls[n].op = "create" /\ calls[n].ok}
    IN calls[CHOOSE n \in ns : \A m \in ns : m <= n].id

C22_SingleCalendarIdPerKey ==
    [][\A t \in 1..MaxInvocations : StepOf(t) =>
          LET inv == invs'[t]
              k == inv.key
              last == IF t <= Len(invs) THEN Len(invs[t].ms365Calls) ELSE 0
          IN /\ (inv.existingEventId = None /\ DrivesMs365(inv) /\ config.msEnabled
                   /\ inv.pc \in {"asanaCall", "done"}) =>
                    /\ Len(inv.ms365Calls) = Len(inv.contributors.emails)
                    /\ OnlyCreates(inv.ms365Calls)
             /\ (t <= Len(invs) /\ invs[t].pc = "ms365Call"
                   /\ inv.ms365Calls[last].op = "create" /\ inv.ms365Calls[last].ok) =>
                    MapIdNext(k, "ms365EventId") = inv.ms365Calls[last].id
             /\ t > Len(invs) =>
                    \A a \in Invocations :
                        (invs[a].pc = "done" /\ invs[a].key = k
                           /\ invs[a].existingEventId = None
                           /\ CreatedIds(invs[a].ms365Calls) # {}) =>
                            \A n \in 1..Len(inv.ms365Calls) :
                                inv.ms365Calls[n].op = "update" =>
                                    inv.ms365Calls[n].id = LastCreatedId(invs[a].ms365Calls)]_vars

(***************************************************************************)
(* C23  A syncContext for key K changes at most the identity-map entry of  *)
(* K: every step of the invocation leaves the entry of every other key,    *)
(* the record it refers to and the ids in it as they were, also while      *)
(* invocations for different keys overlap.                                 *)
(***************************************************************************)
C23_OtherKeysUntouched ==
    [][\A t \in 1..MaxInvocations : StepOf(t) =>
          \A k2 \in SyncKeys \ {invs'[t].key} :
              /\ syncMap'[k2] = syncMap[k2]
              /\ syncMap[k2] # 0 => heap'[syncMap[k2]] = heap[syncMap[k2]]
              /\ MapIdNext(k2, "ms365EventId") = MapId(k2, "ms365EventId")
              /\ MapIdNext(k2, "asanaTaskId") = MapId(k2, "asanaTaskId")]_vars

\* an invocation for one key has completed while an earlier invocation for another
\* key, whose calendar id the map holds, is still awaiting its task call
C23_Witness ==
    \E a \in Invocations, b \in Invocations :
        /\ a < b /\ invs[a].key # invs[b].key
        /\ invs[a].pc = "asanaCall" /\ MapId(invs[a].key, "ms365EventId") # None
        /\ invs[b].pc = "done" /\ syncMap[invs[b].key] = FinalRef(b)

(***************************************************************************)
(* C24  Within one syncContext the adapters are driven strictly in         *)
(* sequence: the task call is issued in the step in which the last         *)
(* calendar call of the invocation returns (or at the start when there is  *)
(* none), after one calendar call per contributor, never together with a   *)
(* calendar call; and the final identity-map write is made in the step in  *)
(* which the task call returns (or when no task call is made), never while *)
(* a call of the invocation is outstanding.                                *)
(***************************************************************************)
C24_AdaptersInSequence ==
    [][\A t \in 1..MaxInvocations : StepOf(t) =>
          LET inv == invs'[t]
              started == t <= Len(invs)
              msBefore == IF started THEN Len(invs[t].ms365Calls) ELSE 0
              asanaBefore == IF started THEN Len(invs[t].asanaCalls) ELSE 0
              finalWrite == syncMap'[inv.key] = FinalRef(t)
          IN /\ Len(inv.asanaCalls) > asanaBefore =>
                    /\ inv.pc = "asanaCall"
                    /\ Len(inv.ms365Calls) = msBefore
                    /\ started => invs[t].pc = "ms365Call"
                    /\ (DrivesMs365(inv) /\ config.msEnabled) =>
                           Len(inv.ms365Calls) = Len(inv.contributors.emails)
             /\ Len(inv.ms365Calls) > msBefore => inv.pc = "ms365Call"
             /\ finalWrite <=> inv.pc = "done"
             /\ finalWrite =>
                    /\ Len(inv.asanaCalls) = asanaBefore
                    /\ Len(inv.ms365Calls) = msBefore
                    /\ (started /\ inv.asanaCalls # <<>>) => invs[t].pc = "asanaCall"
                    /\ DrivesAsana => Len(inv.asanaCalls) = 1]_vars

\* the task call of an invocation is outstanding after both of its calendar calls
\* have returned, the first without an id; the map entry is not yet the final record
C24_Witness ==
    \E t \in Invocations :
        /\ invs[t].pc = "asanaCall"
        /\ Len(invs[t].ms365Calls) = 2
        /\ ~invs[t].ms365Calls[1].ok /\ invs[t].ms365Calls[2].ok
        /\ syncMap[invs[t].key] = CreateRef(t)

(***************************************************************************)
(* C25  getSyncStatus returns null exactly for the keys no syncContext has *)
(* written to (none has completed or stored an id for the key); and the    *)
(* record it returns when a syncContext for the key starts holds exactly   *)
(* the ids that syncContext calls update with: for each adapter it calls,  *)
(* update with the id of the record, or create when the record has none    *)
(* or there is no record.                                                  *)
(***************************************************************************)
WrittenTo(e) ==
    \E t \in Invocations :
        /\ invs[t].key = SyncKey(e[1], e[2])
        /\ \/ invs[t].pc = "done"
           \/ CreatedIds(invs[t].ms365Calls) # {}
           \/ CreatedIds(invs[t].asanaCalls) # {}

CallsFollow(calls, id) ==
    \A n \in 1..Len(calls) :
        IF id = None THEN calls[n].op = "create"
        ELSE calls[n].op = "update" /\ calls[n].id = id

C25_StatusIsNextUpdate ==
    /\ \A e \in Entities : (GetSyncStatus(e[1], e[2]) = None) <=> ~WrittenTo(e)
    /\ \A t \in Invocations :
          /\ CallsFollow(invs[t].ms365Calls, invs[t].existingEventId)
          /\ CallsFollow(invs[t].asanaCalls, invs[t].taskIdAtStart)

(***************************************************************************)
(* C26  Every syncContext invocation eventually completes, provided each   *)
(* adapter call it makes eventually returns or fails, whatever the calls   *)
(* return; on the way it makes at most one calendar call per contributor   *)
(* and one task call, and it waits for nothing but its own calls.          *)
(***************************************************************************)
C26_InvocationCompletes ==
    /\ [](\A t \in Invocations :
             /\ Len(invs[t].ms365Calls) <= Len(invs[t].contributors.emails)
             /\ Len(invs[t].asanaCalls) <= 1)
    /\ \A t \in 1..MaxLiveInvocations :
          (Len(invs) >= t) ~> (Len(invs) >= t /\ invs[t].pc = "done")

\* an invocation has completed although its second calendar call and its task call threw
C26_Witness ==
    \E t \in Invocations :
        /\ invs[t].pc = "done"
        /\ Len(invs[t].ms365Calls) = 2 /\ invs[t].ms365Calls[2].threw
        /\ Len(invs[t].asanaCalls) = 1 /\ invs[t].asanaCalls[1].threw

(***************************************************************************)
(* C27  In the notification callback the SyncService, and with it the      *)
(* identity map, is replaced only when the held configuration has neither  *)
(* a Microsoft 365 clientId nor an Asana accessToken and the configuration *)
(* resolved from the snapshot differs from it.  While the held             *)
(* configuration has such a credential no step replaces the service or     *)
(* empties the map, and the syncContext a notification starts finds the    *)
(* ids the map held for its key, whatever appConfig the snapshot carries.  *)
(***************************************************************************)
C27_ServiceKeptWhileCredentialed ==
    [][LET credentialed == currentAppConfig.clientId \/ currentAppConfig.accessToken
           notified == Len(snaps') > Len(snaps)
       IN /\ (currentAppConfig' # currentAppConfig \/ config' # config) =>
                /\ notified
                /\ ~credentialed
                /\ currentAppConfig' = GetAppConfig(currentResponse')
                /\ config' = ServiceConfig(currentAppConfig')
          /\ credentialed =>
                /\ UNCHANGED <<currentAppConfig, config>>
                /\ \A k \in SyncKeys : syncMap[k] # 0 => syncMap'[k] # 0
                /\ (notified /\ Len(invs') = Len(invs)) => UNCHANGED <<syncMap, heap>>
                /\ (notified /\ Len(invs') > Len(invs)) =>
                       LET inv == invs'[Len(invs')]
                       IN /\ inv.existingSync = syncMap[inv.key]
                          /\ inv.existingEventId = MapId(inv.key, "ms365EventId")
                          /\ inv.taskIdAtStart = MapId(inv.key, "asanaTaskId")]_vars

\* the held configuration has credentials, the latest snapshot carried an appConfig
\* that resolves to another configuration, and the syncContext started for that
\* snapshot found the calendar id an earlier one had stored
C27_Witness ==
    /\ currentAppConfig.clientId /\ currentAppConfig.accessToken
    /\ currentResponse.kind # "null"
    /\ GetAppConfig(currentResponse) # currentAppConfig
    /\ Len(snaps) = 2 /\ snaps[2].inv = 2 /\ Len(invs) = 2
    /\ invs[2].existingEventId # None
    /\ invs[2].existingEventId \in CreatedIds(invs[1].ms365Calls)

(***************************************************************************)
(* C28  A failure of the calendar proxy path never stores an id.  When     *)
(* Graph answers the proxy function with a non-success status, the         *)
(* function answers with that status, callProxy raises, createCalendarEvent*)
(* returns null and no record gains a calendar id; the same holds when the *)
(* function cannot reach Graph (it answers 500); and a success answer      *)
(* without an id yields null and stores no id.  An id is returned only for *)
(* a success answer that carries one.                                      *)
(***************************************************************************)
C28_ProxyFailureStoresNoId ==
    adOut # <<>> =>
        LET answered == adIn.kind = "graphResponse"
            success == answered /\ adIn.status \in 200..299
            failure == ~success \/ adIn.body # "id"
        IN /\ (answered /\ ~success) =>
                  /\ adOut.reply.statusCode = adIn.status
                  /\ adOut.raised /\ adOut.id = None
           /\ ~answered =>
                  /\ adOut.reply.statusCode = 500
                  /\ adOut.raised /\ adOut.id = None
           /\ (success /\ adIn.body # "id") => (~adOut.raised /\ adOut.id = None)
           /\ failure =>
                  /\ ~invs[1].ms365Calls[1].ok
                  /\ \A k \in SyncKeys : MapId(k, "ms365EventId") = None
                  /\ \A r \in Refs : heap[r].ms365EventId = None
           /\ ~failure => adOut.id # None

\* Graph answered 404: the function answered 404, createCalendarEvent returned null and
\* the syncContext went on to its task call with no calendar id in the map
C28_Witness ==
    /\ adIn # <<>> /\ adOut # <<>>
    /\ adIn.kind = "graphResponse" /\ adIn.status = 404
    /\ adOut.reply.statusCode = 404 /\ adOut.raised /\ adOut.id = None
    /\ Len(invs) = 1 /\ invs[1].pc = "asanaCall"
    /\ MapId(invs[1].key, "ms365EventId") = None

(***************************************************************************)
(* C29  A failed or empty assignee lookup never fails the task operation.  *)
(* When an enabled task adapter is given an assignee email and the lookup  *)
(* resolves nobody (neither workspace nor project configured, the project  *)
(* or users request fails, the project names no workspace, or no user      *)
(* matches), createTask and updateTask do not throw, carry no assignee,    *)
(* and report what the task request yields: createTask an id exactly when  *)
(* the request answers with one, updateTask true exactly when the request  *)
(* succeeds.                                                               *)
(***************************************************************************)
C29_LookupFailureKeepsTask ==
    (/\ adOut # <<>>
     /\ adIn.adapter = "asana" /\ adIn.enabled /\ adIn.credential /\ adIn.assignee
     /\ \/ ~adIn.workspaceId /\ ~adIn.projectId
        \/ ~adIn.workspaceId /\ adIn.projectResp \in {"httpError", "noId"}
        \/ adIn.usersResp \in {"networkError", "noId"}) =>
        /\ ~adOut.threw
        /\ adOut.assignee = None
        /\ adIn.op = "create" =>
               /\ adOut.id # None <=> adIn.resp = "ok"
               /\ adOut.ok <=> adIn.resp = "ok"
        /\ adIn.op = "update" =>
               (adOut.ok <=> adIn.resp \in {"noId", "ok"})

\* updateTask with an assignee email, a project and no workspace: the project request
\* got an error status, and the task request succeeded without an assignee
C29_Witness ==
    /\ adIn # <<>> /\ adOut # <<>>
    /\ adIn.adapter = "asana" /\ adIn.op = "update"
    /\ adIn.enabled /\ adIn.credential
    /\ adIn.assignee /\ ~adIn.workspaceId /\ adIn.projectId /\ adIn.projectResp = "httpError"
    /\ adIn.resp = "ok"
    /\ adOut.ok /\ adOut.assignee = None

(***************************************************************************)
(* C30  A configuration with microsoft365.enabled = true and a proxyUrl,   *)
(* once resolved and passed to SyncService, yields a proxy-based calendar  *)
(* adapter whose isEnabled() is true: every syncContext for a context with *)
(* contributors, with createCalendarEvents on, finds the calendar adapter  *)
(* enabled and issues a calendar call.                                     *)
(***************************************************************************)
C30_ProxyConfigEnablesCalendar ==
    (adIn # <<>> /\ adIn.enabled = <<TRUE>> /\ adIn.proxyUrl) =>
        \A t \in Invocations :
            (config.createCalendarEvents /\ invs[t].contributors.emails # <<>>) =>
                /\ invs[t].msIsEnabled
                /\ invs[t].ms365Calls # <<>>

(***************************************************************************)
(* C31  Defaults are fail-closed for adapters and open for toggles.  In    *)
(* configuration data, an adapter section without its enabled flag         *)
(* resolves to enabled = false and that adapter is never called; every     *)
(* syncSettings toggle that is absent resolves to true.  A SyncService     *)
(* built from an AppConfig without syncSettings uses all four toggles as   *)
(* true.  In both cases an invocation that completes under toggles that    *)
(* were absent has called each adapter that was enabled when it reached    *)
(* it (the calendar adapter once per contributor).                         *)
(***************************************************************************)
C31_DefaultsClosedAdaptersOpenToggles ==
    LET omitted(n) == adIn.syncSettings = <<>> \/ adIn.syncSettings[1][n] = <<>>
    IN /\ adIn.source = "data" =>
            /\ adIn.data.msEnabled = <<>> =>
                   /\ ~adOut.appConfig.adapters.msEnabled
                   /\ \A t \in Invocations : invs[t].ms365Calls = <<>>
            /\ adIn.data.asanaEnabled = <<>> =>
                   /\ ~adOut.appConfig.adapters.asanaEnabled
                   /\ \A t \in Invocations : invs[t].asanaCalls = <<>>
            /\ \A n \in ToggleNames :
                   omitted(n) => adOut.appConfig.syncSettings[1][n]
       /\ adIn.source = "appConfig" =>
            /\ adOut.appConfig.syncSettings = <<>>
            /\ \A n \in ToggleNames : adOut.syncSettings[n]
       /\ \A t \in Invocations : invs[t].pc = "done" =>
            /\ (omitted("createCalendarEvents") /\ invs[t].msIsEnabled) =>
                   Len(invs[t].ms365Calls) = Len(invs[t].contributors.emails)
            /\ (omitted("createTasks") /\ AsanaIsEnabled(config)) =>
                   Len(invs[t].asanaCalls) = 1

\* data whose microsoft365 section has no enabled flag and which has no syncSettings,
\* the asana section enabled: a completed invocation with a contributor has called the
\* task adapter and not the calendar adapter
C31_Witness ==
    /\ adIn # <<>> /\ adIn.source = "data"
    /\ adIn.data.msEnabled = <<>> /\ adIn.data.asanaEnabled = <<TRUE>>
    /\ adIn.syncSettings = <<>>
    /\ \E t \in Invocations :
          /\ invs[t].pc = "done"
          /\ invs[t].contributors.emails # <<>>
          /\ invs[t].ms365Calls = <<>>
          /\ Len(invs[t].asanaCalls) = 1

(***************************************************************************)
(* C32  The proxy function rejects a request before contacting the token   *)
(* endpoint or Graph, checking in this order: OPTIONS gives 204, any other *)
(* method than POST gives 405, a missing environment variable gives 500, a *)
(* body without userPrincipalName or eventPayload gives 400.  A Graph      *)
(* request is made only for a request that passes the four checks, and     *)
(* then exactly one: PATCH when the body has an event id, POST when it has *)
(* no eventId.                                                             *)
(***************************************************************************)
C32_ProxyChecksInOrder ==
    adOut # <<>> =>
        LET options == adIn.httpMethod = "OPTIONS"
            notPost == adIn.httpMethod # "POST"
            envMissing == adIn.outcome.kind = "envMissing"
            lacking == \/ adIn.body.kind \in {"none", "null"}
                       \/ /\ adIn.body.kind = "object"
                          /\ ~adIn.body.userPrincipalName \/ ~adIn.body.eventPayload
            unparsable == adIn.body.kind = "invalidJson"
            rejected == notPost \/ envMissing \/ lacking \/ unparsable
        IN /\ options => adOut.statusCode = 204
           /\ (notPost /\ ~options) => adOut.statusCode = 405
           /\ (~notPost /\ envMissing) => adOut.statusCode = 500
           /\ (~notPost /\ ~envMissing /\ lacking) => adOut.statusCode = 400
           /\ rejected => adOut.requests = NoProxyRequests
           /\ Len(adOut.requests.graphRequests) <= 1
           /\ adOut.requests.graphRequests # <<>> =>
                  /\ ~rejected
                  /\ adIn.body.eventId = "id" => adOut.requests.graphRequests = <<"PATCH">>
                  /\ adIn.body.eventId = "absent" => adOut.requests.graphRequests = <<"POST">>

====
